---- MODULE Spec2Model ----
(***************************************************************************)
(* Ingestion and cleanup of the RAG service as a state machine over the    *)
(* relational store.  `store' is what is committed, `sess' is the view of  *)
(* the one open SQLAlchemy session (committed rows plus its own pending    *)
(* writes); a request opens a session, runs one service function step by   *)
(* step and closes the session (app/db/database.py get_db).  Requests run  *)
(* one at a time.                                                          *)
(***************************************************************************)
EXTENDS Integers, Sequences, FiniteSets, TLC

\* ---------------------------------------------------------------- bounds
MaxDocs == 1      \* documents uploaded to knowledge base 1
MaxChunks == 2    \* chunks of one ingestion attempt
ScenarioDocs == 3    \* documents of the knowledge base a cleanup starts from
ScenarioChunks == 4  \* chunks of one of these documents

\* ------------------------------------------------------------- constants
embedding_dim == 1024
Null == -1        \* JSON null / None in an integer position

\* DocumentStatus, CleanupTaskStatus, KnowledgeBaseStatus
PROCESSING == "processing"
COMPLETED == "completed"
FAILED == "failed"
DELETED == "deleted"
PENDING == "pending"
RUNNING == "running"
KB_ENABLED == "enabled"
KB_DISABLED == "disabled"
KB_DELETED == "deleted"

None == "None"    \* None in a text position (error_message, percentage)

\* the texts the caller's chunks carry, one text per attempt
Texts == {"a", "b"}
\* lengths of the vectors embed_fn may hand back
Dims == {embedding_dim, embedding_dim - 1}
\* str(exc) of what embed_fn may raise (an exception may carry no message)
EmbedMessages == {"", "embed_fn failed"}
MsgCount == "embedding count mismatch"
MsgDim == "embedding dimension mismatch"
MsgStore == "store operation failed"

\* ids the requests name: documents 2..MaxDocs+1 are uploaded to knowledge
\* base 1, document 1 belongs to knowledge base 2 and is never addressed
DocInputs == 2..(MaxDocs + 1)
KbInputs == {1, 3}
TaskInputs == {1, 2}

VARIABLES store, sess, in_transaction, pc, call, ret, pre

vars == <<store, sess, in_transaction, pc, call, ret, pre>>

\* ------------------------------------------------------------------ rows
NoDoc ==
    [exists |-> FALSE, knowledge_base_id |-> 0, status |-> None,
     error_message |-> None, chunk_count |-> 0]

Document(kb_id, status, chunk_count) ==
    [exists |-> TRUE, knowledge_base_id |-> kb_id, status |-> status,
     error_message |-> None, chunk_count |-> chunk_count]

DocumentChunk(kb_id, document_id, chunk_index, chunk_text) ==
    [knowledge_base_id |-> kb_id, document_id |-> document_id,
     chunk_index |-> chunk_index, chunk_text |-> chunk_text]

Progress(processed, total, percentage) ==
    [processed |-> processed, total |-> total, percentage |-> percentage]

NoTask ==
    [exists |-> FALSE, knowledge_base_id |-> 0, status |-> None,
     progress |-> Progress(Null, Null, None), error_message |-> None]

CleanupTask(kb_id, status, progress) ==
    [exists |-> TRUE, knowledge_base_id |-> kb_id, status |-> status,
     progress |-> progress, error_message |-> None]

\* the chunk list a caller passes: n chunks, chunk_index 0..n-1
ChunkIndexes(n) == 0..(n - 1)

\* ------------------------------------------------------- session, request
NoCall ==
    [op |-> "none", id |-> 0, n |-> 0, text |-> None, embedded |-> FALSE,
     vectors |-> <<>>, exc |-> None, cause |-> None, chunk_count |-> 0, doc_count |-> 0]

NoRet == [kind |-> "none", code |-> None, status_code |-> 0]

Returned == [kind |-> "returned", code |-> None, status_code |-> 0]

\* AppError(status_code, code, message)
AppError(status_code, code) ==
    [kind |-> "raised", code |-> code, status_code |-> status_code]

\* an exception that is no AppError leaves the service function
Unhandled(cause) ==
    [kind |-> "raised", code |-> cause, status_code |-> 500]

\* Session.get(Document, id) / Session.get(CleanupTask, id) / Session.get(KnowledgeBase, id)
GetDocument(s, document_id) ==
    IF document_id \in DOMAIN s.documents THEN s.documents[document_id] ELSE NoDoc

GetTask(s, task_id) == IF task_id = 1 THEN s.task ELSE NoTask

GetKb(s, kb_id) == IF kb_id \in DOMAIN s.kbs THEN s.kbs[kb_id] ELSE None

\* Knowledge base 1 exists, ENABLED and empty; knowledge base 2 holds one
\* ingested document (id 1, one chunk), the rows a cleanup of knowledge base 1
\* must leave alone.  No session is open.
Init ==
    /\ store = [kbs |-> (1 :> KB_ENABLED) @@ (2 :> KB_ENABLED),
                documents |-> [d \in 1..(MaxDocs + 1) |->
                                 IF d = 1 THEN Document(2, COMPLETED, 1) ELSE NoDoc],
                chunks |-> {DocumentChunk(2, 1, 0, "a")},
                task |-> NoTask,
                next_document_id |-> 2]
    /\ sess = store
    /\ in_transaction = FALSE
    /\ pc = "idle"
    /\ call = NoCall
    /\ ret = NoRet
    /\ pre = store

\* a request starts on a fresh session of SessionLocal
Begin(op, id, n, text) ==
    /\ pc = "idle"
    /\ pre' = store
    /\ call' = [NoCall EXCEPT !.op = op, !.id = id, !.n = n, !.text = text]

\* -------------------------------------------------------------- documents
\* mutant of create_document: only a missing knowledge base is refused
create_document_unavailable_too(kb_id) ==
    /\ Begin("create_document", kb_id, 0, None)
    /\ pc' = "done"
    /\ in_transaction' = TRUE
    /\ IF GetKb(sess, kb_id) = None
       THEN /\ ret' = AppError(404, "KNOWLEDGE_BASE_NOT_FOUND")
            /\ UNCHANGED <<store, sess>>
       ELSE /\ store.next_document_id <= MaxDocs + 1
            /\ store' = [store EXCEPT
                           !.documents[store.next_document_id] =
                               Document(kb_id, PROCESSING, 0),
                           !.next_document_id = @ + 1]
            /\ sess' = store'
            /\ ret' = Returned

create_document(kb_id) ==
    /\ Begin("create_document", kb_id, 0, None)
    /\ pc' = "done"
    /\ in_transaction' = TRUE
    /\ IF GetKb(sess, kb_id) = None
       THEN /\ ret' = AppError(404, "KNOWLEDGE_BASE_NOT_FOUND")
            /\ UNCHANGED <<store, sess>>
       ELSE IF GetKb(sess, kb_id) \in {KB_DISABLED, KB_DELETED}
       THEN /\ ret' = AppError(403, "KNOWLEDGE_BASE_UNAVAILABLE")
            /\ UNCHANGED <<store, sess>>
       ELSE /\ store.next_document_id <= MaxDocs + 1
            /\ store' = [store EXCEPT
                           !.documents[store.next_document_id] =
                               Document(kb_id, PROCESSING, 0),
                           !.next_document_id = @ + 1]
            /\ sess' = store'
            /\ ret' = Returned

\* delete(DocumentChunk).where(DocumentChunk.document_id == document_id)
DeleteChunksOf(s, document_id) ==
    [s EXCEPT !.chunks = {c \in @ : c.document_id # document_id}]

\* the chunk rows of a document
ChunksOf(s, document_id) == {c \in s.chunks : c.document_id = document_id}

\* mutant of delete_document: the chunk rows are left in place
delete_document_keeps_chunks(document_id) ==
    /\ Begin("delete_document", document_id, 0, None)
    /\ pc' = "done"
    /\ in_transaction' = TRUE
    /\ IF ~GetDocument(sess, document_id).exists
       THEN /\ ret' = AppError(404, "DOCUMENT_NOT_FOUND")
            /\ UNCHANGED <<store, sess>>
       ELSE IF GetDocument(sess, document_id).status = DELETED
       THEN /\ ret' = AppError(410, "DOCUMENT_DELETED")
            /\ UNCHANGED <<store, sess>>
       ELSE /\ store' = [store EXCEPT !.documents[document_id].status = DELETED]
            /\ sess' = store'
            /\ ret' = Returned

delete_document(document_id) ==
    /\ Begin("delete_document", document_id, 0, None)
    /\ pc' = "done"
    /\ in_transaction' = TRUE
    /\ IF ~GetDocument(sess, document_id).exists
       THEN /\ ret' = AppError(404, "DOCUMENT_NOT_FOUND")
            /\ UNCHANGED <<store, sess>>
       ELSE IF GetDocument(sess, document_id).status = DELETED
       THEN /\ ret' = AppError(410, "DOCUMENT_DELETED")
            /\ UNCHANGED <<store, sess>>
       ELSE /\ store' = DeleteChunksOf(
                           [store EXCEPT !.documents[document_id].status = DELETED],
                           document_id)
            /\ sess' = store'
            /\ ret' = Returned

\* -------------------------------------------------------------- ingestion
\* what embed_fn may do: raise, or hand back a list of vectors (their lengths)
EmbedOutcomes ==
    {[raised |-> TRUE, message |-> m, vectors |-> <<>>] : m \in EmbedMessages}
    \cup
    {[raised |-> FALSE, message |-> None, vectors |-> v] :
        v \in UNION {[1..k -> Dims] : k \in 0..MaxChunks}}

\* mutant of EmbeddingError: the vectors' lengths are not checked
EmbeddingErrorNoDimCheck(outcome, n) ==
    IF outcome.raised
    THEN [cause |-> "Exception", exc |-> outcome.message]
    ELSE IF Len(outcome.vectors) # n
    THEN [cause |-> "ValueError", exc |-> MsgCount]
    ELSE [cause |-> None, exc |-> None]

\* lines 231-238: the exception the embedding stage ends with, if any
EmbeddingError(outcome, n) ==
    IF outcome.raised
    THEN [cause |-> "Exception", exc |-> outcome.message]
    ELSE IF Len(outcome.vectors) # n
    THEN [cause |-> "ValueError", exc |-> MsgCount]
    ELSE IF \E i \in 1..Len(outcome.vectors) : outcome.vectors[i] # embedding_dim
    THEN [cause |-> "ValueError", exc |-> MsgDim]
    ELSE [cause |-> None, exc |-> None]

\* the rows added for the first j chunks of the input
InsertChunks(s, document_id, j, text) ==
    [s EXCEPT !.chunks = @ \cup
        {DocumentChunk(s.documents[document_id].knowledge_base_id, document_id, i, text) :
            i \in ChunkIndexes(j)}]

MarkCompleted(s, document_id, n) ==
    [s EXCEPT !.documents[document_id].chunk_count = n,
              !.documents[document_id].status = COMPLETED,
              !.documents[document_id].error_message = None]

\* mutant of PersistUnit: the prior chunk rows are not deleted first
PersistUnitNoDelete(s, document_id, n, text, fault) ==
    CASE fault = "delete" -> s
      [] fault = "insert" -> InsertChunks(s, document_id, n - 1, text)
      [] fault = "update" -> InsertChunks(s, document_id, n, text)
      [] OTHER -> MarkCompleted(InsertChunks(s, document_id, n, text), document_id, n)

\* lines 242-256: the session's view where the unit stops; fault names the
\* statement that fails ("none": the unit runs to its end)
PersistUnit(s, document_id, n, text, fault) ==
    CASE fault = "delete" -> s
      [] fault = "insert" -> InsertChunks(DeleteChunksOf(s, document_id), document_id, n - 1, text)
      [] fault = "update" -> InsertChunks(DeleteChunksOf(s, document_id), document_id, n, text)
      [] OTHER -> MarkCompleted(
                      InsertChunks(DeleteChunksOf(s, document_id), document_id, n, text),
                      document_id, n)

\* `with transaction:' left by an exception: back to where it was entered
TransactionExit(saved, working, failed) == IF failed THEN saved ELSE working

\* mutant of Rollback: the pending writes stay in the session
RollbackKeepsPending(committed, working) == working

\* Session.rollback(): the session sees the committed rows again
Rollback(committed, working) == committed

\* mutants of MarkFailed: the failure write also empties the chunk set; the
\* failure write leaves error_message as it was
MarkFailedEmptied(s, document_id, exc) ==
    [DeleteChunksOf(s, document_id) EXCEPT
        !.documents[document_id].status = FAILED,
        !.documents[document_id].error_message = exc,
        !.documents[document_id].chunk_count = 0]

MarkFailedNoMessage(s, document_id, exc) ==
    [s EXCEPT !.documents[document_id].status = FAILED]

MarkFailed(s, document_id, exc) ==
    [s EXCEPT !.documents[document_id].status = FAILED,
              !.documents[document_id].error_message = exc]

\* mutant of persist_embeddings_begin: a DELETED document is ingested again
persist_embeddings_begin_deleted_too(document_id, n, text) ==
    /\ Begin("persist_embeddings", document_id, n, text)
    /\ in_transaction' = TRUE
    /\ UNCHANGED <<store, sess>>
    /\ IF ~GetDocument(sess, document_id).exists
       THEN /\ ret' = AppError(404, "DOCUMENT_NOT_FOUND")
            /\ pc' = "done"
       ELSE /\ ret' = NoRet
            /\ pc' = "persist_embed"

persist_embeddings_begin(document_id, n, text) ==
    /\ Begin("persist_embeddings", document_id, n, text)
    /\ in_transaction' = TRUE
    /\ UNCHANGED <<store, sess>>
    /\ IF ~GetDocument(sess, document_id).exists
       THEN /\ ret' = AppError(404, "DOCUMENT_NOT_FOUND")
            /\ pc' = "done"
       ELSE IF GetDocument(sess, document_id).status = DELETED
       THEN /\ ret' = AppError(410, "DOCUMENT_DELETED")
            /\ pc' = "done"
       ELSE /\ ret' = NoRet
            /\ pc' = "persist_embed"

persist_embeddings_embed(outcome) ==
    /\ pc = "persist_embed"
    /\ LET e == EmbeddingError(outcome, call.n)
       IN /\ call' = [call EXCEPT !.embedded = TRUE, !.vectors = outcome.vectors,
                                  !.exc = e.exc, !.cause = e.cause]
          /\ pc' = IF e.cause = None THEN "persist_write" ELSE "persist_except"
    /\ UNCHANGED <<store, sess, in_transaction, ret, pre>>

PersistFaults(n) == {"none", "delete", "update"} \cup (IF n > 0 THEN {"insert"} ELSE {})

\* line 240: db.get of line 215 has begun the session's transaction, so a
\* session of SessionLocal takes begin_nested() here: leaving the block
\* releases or rolls back the savepoint and commits nothing.  db.begin() (no
\* transaction yet) commits at the end of the block.
persist_embeddings_write(fault) ==
    /\ pc = "persist_write"
    /\ fault \in PersistFaults(call.n)
    /\ LET nested == in_transaction
           saved == IF nested THEN sess ELSE store
           working == PersistUnit(sess, call.id, call.n, call.text, fault)
       IN /\ sess' = TransactionExit(saved, working, fault # "none")
          /\ store' = IF fault = "none" /\ ~nested THEN working ELSE store
    /\ in_transaction' = TRUE
    /\ IF fault = "none"
       THEN /\ pc' = "done"
            /\ ret' = Returned
            /\ UNCHANGED call
       ELSE /\ pc' = "persist_except"
            /\ call' = [call EXCEPT !.exc = MsgStore, !.cause = "DBAPIError"]
            /\ UNCHANGED ret
    /\ UNCHANGED pre

persist_embeddings_except ==
    /\ pc = "persist_except"
    /\ LET rolled == Rollback(store, sess)
       IN IF GetDocument(rolled, call.id).exists
          THEN /\ sess' = MarkFailed(rolled, call.id, call.exc)
               /\ store' = sess'
               /\ in_transaction' = FALSE
          ELSE /\ sess' = rolled
               /\ in_transaction' = TRUE
               /\ UNCHANGED store
    /\ pc' = "done"
    /\ ret' = AppError(500, "INTERNAL_ERROR")
    /\ UNCHANGED <<call, pre>>

\* --------------------------------------------------------- knowledge base
\* mutant of delete_knowledge_base: the rows are removed with the status change
delete_knowledge_base_eager(kb_id) ==
    /\ Begin("delete_knowledge_base", kb_id, 0, None)
    /\ pc' = "done"
    /\ in_transaction' = TRUE
    /\ IF GetKb(sess, kb_id) = None
       THEN /\ ret' = AppError(404, "KNOWLEDGE_BASE_NOT_FOUND")
            /\ UNCHANGED <<store, sess>>
       ELSE IF GetKb(sess, kb_id) = KB_DELETED
       THEN /\ ret' = AppError(409, "KNOWLEDGE_BASE_DELETED")
            /\ UNCHANGED <<store, sess>>
       ELSE /\ store' = [store EXCEPT
                           !.kbs[kb_id] = KB_DELETED,
                           !.chunks = {c \in @ : c.knowledge_base_id # kb_id},
                           !.task = CleanupTask(kb_id, PENDING, Progress(0, Null, None))]
            /\ sess' = store'
            /\ ret' = Returned

delete_knowledge_base(kb_id) ==
    /\ Begin("delete_knowledge_base", kb_id, 0, None)
    /\ pc' = "done"
    /\ in_transaction' = TRUE
    /\ IF GetKb(sess, kb_id) = None
       THEN /\ ret' = AppError(404, "KNOWLEDGE_BASE_NOT_FOUND")
            /\ UNCHANGED <<store, sess>>
       ELSE IF GetKb(sess, kb_id) = KB_DELETED
       THEN /\ ret' = AppError(409, "KNOWLEDGE_BASE_DELETED")
            /\ UNCHANGED <<store, sess>>
       ELSE /\ store' = [store EXCEPT
                           !.kbs[kb_id] = KB_DELETED,
                           !.task = CleanupTask(kb_id, PENDING, Progress(0, Null, None))]
            /\ sess' = store'
            /\ ret' = Returned

\* ---------------------------------------------------------------- cleanup
\* mutant of Retryable: a task that has not run yet may be retried as well
RetryableOrPending(status) == status \in {FAILED, PENDING}

\* mutant of Retryable: every task that is not running may be retried
RetryableUnlessRunning(status) == status # RUNNING

\* line 57
Retryable(status) == status = FAILED

retry_cleanup_task(task_id) ==
    /\ Begin("retry_cleanup_task", task_id, 0, None)
    /\ pc' = "done"
    /\ in_transaction' = TRUE
    /\ IF ~GetTask(sess, task_id).exists
       THEN /\ ret' = AppError(404, "CLEANUP_TASK_NOT_FOUND")
            /\ UNCHANGED <<store, sess>>
       ELSE IF ~Retryable(GetTask(sess, task_id).status)
       THEN /\ ret' = AppError(409, "CLEANUP_TASK_NOT_RETRYABLE")
            /\ UNCHANGED <<store, sess>>
       ELSE /\ store' = [store EXCEPT
                           !.task.status = PENDING,
                           !.task.error_message = None,
                           !.task.progress = Progress(0, Null, None)]
            /\ sess' = store'
            /\ ret' = Returned

\* select(func.count()) over the knowledge base's chunk / document rows
CountChunks(s, kb_id) ==
    Cardinality({c \in s.chunks : c.knowledge_base_id = kb_id})

CountDocuments(s, kb_id) ==
    Cardinality({d \in DOMAIN s.documents :
                    s.documents[d].exists /\ s.documents[d].knowledge_base_id = kb_id})

\* delete(DocumentChunk) / delete(Document) where knowledge_base_id == kb_id
DeleteKbChunks(s, kb_id) ==
    [s EXCEPT !.chunks = {c \in @ : c.knowledge_base_id # kb_id}]

DeleteKbDocuments(s, kb_id) ==
    [s EXCEPT !.documents =
        [d \in DOMAIN @ |->
            IF @[d].exists /\ @[d].knowledge_base_id = kb_id THEN NoDoc ELSE @[d]]]

\* mutant of CleanupEntry: a RUNNING task is executed like a PENDING one
CleanupEntryRunningStarts(status) ==
    IF status = COMPLETED THEN "return" ELSE "start"

\* mutant of CleanupEntry: a COMPLETED task is executed again
CleanupEntryNoShortCircuit(status) ==
    IF status \notin {PENDING, FAILED, COMPLETED} THEN "conflict" ELSE "start"

\* lines 90-97: what run_cleanup_task does with a task of this status
CleanupEntry(status) ==
    IF status = COMPLETED THEN "return"
    ELSE IF status \notin {PENDING, FAILED} THEN "conflict"
    ELSE "start"

\* lines 89-100
run_cleanup_task_begin(task_id) ==
    /\ Begin("run_cleanup_task", task_id, 0, None)
    /\ in_transaction' = TRUE
    /\ UNCHANGED store
    /\ IF ~GetTask(sess, task_id).exists
       THEN /\ ret' = AppError(404, "CLEANUP_TASK_NOT_FOUND")
            /\ pc' = "done"
            /\ UNCHANGED sess
       ELSE IF CleanupEntry(GetTask(sess, task_id).status) = "return"
       THEN /\ ret' = Returned
            /\ pc' = "done"
            /\ UNCHANGED sess
       ELSE IF CleanupEntry(GetTask(sess, task_id).status) = "conflict"
       THEN /\ ret' = AppError(409, "CLEANUP_TASK_NOT_RETRYABLE")
            /\ pc' = "done"
            /\ UNCHANGED sess
       ELSE /\ sess' = [sess EXCEPT !.task.status = RUNNING,
                                    !.task.error_message = None]
            /\ ret' = NoRet
            /\ pc' = "cleanup_count"

\* lines 102-114; the two count queries run outside the try block
run_cleanup_task_count(fault) ==
    /\ pc = "cleanup_count"
    /\ UNCHANGED <<store, in_transaction, pre>>
    /\ IF fault
       THEN /\ pc' = "done"
            /\ ret' = Unhandled("DBAPIError")
            /\ call' = [call EXCEPT !.exc = MsgStore, !.cause = "DBAPIError"]
            /\ UNCHANGED sess
       ELSE LET chunk_count == CountChunks(sess, sess.task.knowledge_base_id)
                doc_count == CountDocuments(sess, sess.task.knowledge_base_id)
                total == chunk_count + doc_count
            IN /\ call' = [call EXCEPT !.chunk_count = chunk_count,
                                       !.doc_count = doc_count]
               /\ sess' = [sess EXCEPT !.task.progress =
                              Progress(0, total, IF total # 0 THEN "0.0" ELSE None)]
               /\ pc' = "cleanup_commit"
               /\ UNCHANGED ret

\* mutant of run_cleanup_task_commit: the deletes follow without the commit
\* of RUNNING
run_cleanup_task_commit_skipped(fault) ==
    /\ pc = "cleanup_commit"
    /\ IF fault
       THEN /\ pc' = "cleanup_except"
            /\ call' = [call EXCEPT !.exc = MsgStore, !.cause = "DBAPIError"]
       ELSE /\ pc' = "cleanup_delete"
            /\ UNCHANGED call
    /\ UNCHANGED <<store, in_transaction, sess, ret, pre>>

\* line 117
run_cleanup_task_commit(fault) ==
    /\ pc = "cleanup_commit"
    /\ IF fault
       THEN /\ pc' = "cleanup_except"
            /\ call' = [call EXCEPT !.exc = MsgStore, !.cause = "DBAPIError"]
            /\ UNCHANGED <<store, in_transaction>>
       ELSE /\ store' = sess
            /\ in_transaction' = FALSE
            /\ pc' = "cleanup_delete"
            /\ UNCHANGED call
    /\ UNCHANGED <<sess, ret, pre>>

\* mutant of CleanupUnit: an empty knowledge base ends without percentage
CleanupUnitNoPercentage(s, chunk_count, total, fault) ==
    LET kb_id == s.task.knowledge_base_id
    IN CASE fault = "chunks" -> s
         [] fault = "documents" ->
              [DeleteKbChunks(s, kb_id) EXCEPT
                  !.task.progress = Progress(chunk_count, total, None)]
         [] OTHER ->
              [DeleteKbDocuments(DeleteKbChunks(s, kb_id), kb_id) EXCEPT
                  !.task.status = COMPLETED,
                  !.task.progress =
                      Progress(total, total, IF total # 0 THEN "1.0" ELSE None)]

\* lines 118-131: the session's view where the deletes stop; fault names the
\* statement that fails ("commit": line 132, "none": nothing fails)
CleanupUnit(s, chunk_count, total, fault) ==
    LET kb_id == s.task.knowledge_base_id
    IN CASE fault = "chunks" -> s
         [] fault = "documents" ->
              [DeleteKbChunks(s, kb_id) EXCEPT
                  !.task.progress = Progress(chunk_count, total, None)]
         [] OTHER ->
              [DeleteKbDocuments(DeleteKbChunks(s, kb_id), kb_id) EXCEPT
                  !.task.status = COMPLETED,
                  !.task.progress =
                      Progress(total, total, IF total # 0 THEN "1.0" ELSE "1.0")]

run_cleanup_task_delete(fault) ==
    /\ pc = "cleanup_delete"
    /\ sess' = CleanupUnit(sess, call.chunk_count,
                           call.chunk_count + call.doc_count, fault)
    /\ IF fault = "none"
       THEN /\ store' = sess'
            /\ in_transaction' = TRUE
            /\ pc' = "done"
            /\ ret' = Returned
            /\ UNCHANGED call
       ELSE /\ pc' = "cleanup_except"
            /\ in_transaction' = TRUE
            /\ call' = [call EXCEPT !.exc = MsgStore, !.cause = "DBAPIError"]
            /\ UNCHANGED <<store, ret>>
    /\ UNCHANGED pre

\* lines 133-139
run_cleanup_task_except ==
    /\ pc = "cleanup_except"
    /\ sess' = [Rollback(store, sess) EXCEPT
                   !.task.status = FAILED,
                   !.task.error_message = call.exc]
    /\ store' = sess'
    /\ in_transaction' = TRUE
    /\ pc' = "done"
    /\ ret' = Returned
    /\ UNCHANGED <<call, pre>>

\* get_db: the session is closed when the request ends; what it did not
\* commit is rolled back.  The caller of a service function that returned
\* may commit the session first.
get_db_close(commit) ==
    /\ pc = "done"
    /\ commit => ret.kind = "returned"
    /\ store' = IF commit THEN sess ELSE store
    /\ sess' = store'
    /\ in_transaction' = FALSE
    /\ pc' = "idle"
    /\ ret' = NoRet
    /\ call' = NoCall
    /\ pre' = store'

\* the process stops in the middle of a request (crash, restart): the session
\* and what it had not committed are lost, the committed rows stay
process_restart ==
    /\ pc \notin {"idle", "done"}
    /\ sess' = store
    /\ in_transaction' = FALSE
    /\ pc' = "idle"
    /\ ret' = NoRet
    /\ call' = NoCall
    /\ pre' = store
    /\ UNCHANGED store

Next ==
    \/ \E kb_id \in KbInputs : create_document(kb_id)
    \/ \E d \in DocInputs : delete_document(d)
    \/ \E d \in DocInputs, n \in 0..MaxChunks, text \in Texts :
          persist_embeddings_begin(d, n, text)
    \/ \E outcome \in EmbedOutcomes : persist_embeddings_embed(outcome)
    \/ \E fault \in {"none", "delete", "insert", "update"} : persist_embeddings_write(fault)
    \/ persist_embeddings_except
    \/ \E kb_id \in KbInputs : delete_knowledge_base(kb_id)
    \/ \E t \in TaskInputs : retry_cleanup_task(t)
    \/ \E t \in TaskInputs : run_cleanup_task_begin(t)
    \/ \E fault \in BOOLEAN : run_cleanup_task_count(fault)
    \/ \E fault \in BOOLEAN : run_cleanup_task_commit(fault)
    \/ \E fault \in {"none", "chunks", "documents", "commit"} : run_cleanup_task_delete(fault)
    \/ run_cleanup_task_except
    \/ \E commit \in BOOLEAN : get_db_close(commit)
    \/ process_restart

Spec == Init /\ [][Next]_vars

\* ingestion alone: uploads, ingestion attempts with every failure, deletions
NextIngest ==
    \/ \E kb_id \in KbInputs : create_document(kb_id)
    \/ \E d \in DocInputs : delete_document(d)
    \/ \E d \in DocInputs, n \in 0..MaxChunks, text \in Texts :
          persist_embeddings_begin(d, n, text)
    \/ \E outcome \in EmbedOutcomes : persist_embeddings_embed(outcome)
    \/ \E fault \in {"none", "delete", "insert", "update"} : persist_embeddings_write(fault)
    \/ persist_embeddings_except
    \/ \E commit \in BOOLEAN : get_db_close(commit)

SpecIngest == Init /\ [][NextIngest]_vars

\* cleanup with every failure, over knowledge bases filled by ingestion
\* attempts that succeed and are committed by their caller
GoodEmbedding(n) == [raised |-> FALSE, message |-> None, vectors |-> [i \in 1..n |-> embedding_dim]]

NextCleanup ==
    \/ \E kb_id \in KbInputs : create_document(kb_id)
    \/ \E d \in DocInputs : delete_document(d)
    \/ \E d \in DocInputs, n \in 0..MaxChunks : persist_embeddings_begin(d, n, "a")
    \/ persist_embeddings_embed(GoodEmbedding(call.n))
    \/ persist_embeddings_write("none")
    \/ \E kb_id \in KbInputs : delete_knowledge_base(kb_id)
    \/ \E t \in TaskInputs : retry_cleanup_task(t)
    \/ \E t \in TaskInputs : run_cleanup_task_begin(t)
    \/ \E fault \in BOOLEAN : run_cleanup_task_count(fault)
    \/ \E fault \in BOOLEAN : run_cleanup_task_commit(fault)
    \/ \E fault \in {"none", "chunks", "documents", "commit"} : run_cleanup_task_delete(fault)
    \/ run_cleanup_task_except
    \/ \E commit \in BOOLEAN : get_db_close(commit)

SpecCleanup == Init /\ [][NextCleanup]_vars

\* cleanup in a process that may stop at any step of a request.  Requests
\* keep arriving and a step that can go well eventually does: strong fairness
\* on the calls on task 1 and on the fault-free continuation of each step.
NextResume == NextCleanup \/ process_restart

ResumeFairness ==
    /\ WF_vars(NextResume)
    /\ SF_vars(retry_cleanup_task(1))
    /\ SF_vars(run_cleanup_task_begin(1))
    /\ SF_vars(run_cleanup_task_count(FALSE))
    /\ SF_vars(run_cleanup_task_commit(FALSE))
    /\ SF_vars(run_cleanup_task_delete("none"))
    /\ SF_vars(run_cleanup_task_except)
    /\ SF_vars(get_db_close(FALSE))

SpecResume == Init /\ [][NextResume]_vars /\ ResumeFairness

\* cleanup of a deleted knowledge base that holds k documents, each ingested
\* with some number of chunks (what k uploads, k committed ingestions and
\* delete_knowledge_base leave behind); its task is PENDING
ScenarioStore(k, counts) ==
    [kbs |-> (1 :> KB_DELETED) @@ (2 :> KB_ENABLED),
     documents |-> [d \in 1..(ScenarioDocs + 1) |->
                      IF d = 1 THEN Document(2, COMPLETED, 1)
                      ELSE IF d <= k + 1 THEN Document(1, COMPLETED, counts[d])
                      ELSE NoDoc],
     chunks |-> {DocumentChunk(2, 1, 0, "a")} \cup
                UNION {{DocumentChunk(1, d, i, "a") : i \in ChunkIndexes(counts[d])} :
                          d \in 2..(k + 1)},
     task |-> CleanupTask(1, PENDING, Progress(0, Null, None)),
     next_document_id |-> k + 2]

InitScenario ==
    /\ \E k \in 0..ScenarioDocs :
          \E counts \in [2..(k + 1) -> 0..ScenarioChunks] :
             store = ScenarioStore(k, counts)
    /\ sess = store
    /\ in_transaction = FALSE
    /\ pc = "idle"
    /\ call = NoCall
    /\ ret = NoRet
    /\ pre = store

NextScenario ==
    \/ \E t \in TaskInputs : retry_cleanup_task(t)
    \/ \E t \in TaskInputs : run_cleanup_task_begin(t)
    \/ \E fault \in BOOLEAN : run_cleanup_task_count(fault)
    \/ \E fault \in BOOLEAN : run_cleanup_task_commit(fault)
    \/ \E fault \in {"none", "chunks", "documents", "commit"} : run_cleanup_task_delete(fault)
    \/ run_cleanup_task_except
    \/ \E commit \in BOOLEAN : get_db_close(commit)

SpecScenario == InitScenario /\ [][NextScenario]_vars

\* ------------------------------------------------------- concurrent calls
\* Two calls of run_cleanup_task on task 1, each on its own session, against
\* PostgreSQL at READ COMMITTED (the engine sets no isolation level).  In
\* the specifications of concurrent calls pc, call, ret and sess are
\* functions of the worker; sess[w] holds the task object of the worker's
\* session: its attributes (task) and their values as loaded (loaded).
Workers == {1, 2}

\* flush of a loaded object: the UPDATE sets the attributes whose value
\* differs from the loaded one, on the row as it is committed now
FlushRow(committed, loaded, current) ==
    [a \in DOMAIN committed |->
        IF current[a] # loaded[a] THEN current[a] ELSE committed[a]]

\* Session.get: the object is loaded from the committed row
LoadTask(s) == [task |-> s.task, loaded |-> s.task]

InitConcurrentCleanup ==
    /\ \E k \in 0..MaxDocs :
          \E counts \in [2..(k + 1) -> 0..MaxChunks] :
             store = ScenarioStore(k, counts)
    /\ sess = [w \in Workers |-> LoadTask(store)]
    /\ in_transaction = [w \in Workers |-> FALSE]
    /\ pc = [w \in Workers |-> "idle"]
    /\ call = [w \in Workers |-> NoCall]
    /\ ret = [w \in Workers |-> NoRet]
    /\ pre = store

\* lines 89-100 in worker w
concurrent_cleanup_begin(w) ==
    /\ pc[w] = "idle"
    /\ call' = [call EXCEPT ![w] = [NoCall EXCEPT !.op = "run_cleanup_task", !.id = 1]]
    /\ in_transaction' = [in_transaction EXCEPT ![w] = TRUE]
    /\ UNCHANGED <<store, pre>>
    /\ LET entry == CleanupEntry(store.task.status)
       IN IF entry = "return"
          THEN /\ ret' = [ret EXCEPT ![w] = Returned]
               /\ pc' = [pc EXCEPT ![w] = "done"]
               /\ sess' = [sess EXCEPT ![w] = LoadTask(store)]
          ELSE IF entry = "conflict"
          THEN /\ ret' = [ret EXCEPT ![w] = AppError(409, "CLEANUP_TASK_NOT_RETRYABLE")]
               /\ pc' = [pc EXCEPT ![w] = "done"]
               /\ sess' = [sess EXCEPT ![w] = LoadTask(store)]
          ELSE /\ ret' = [ret EXCEPT ![w] = NoRet]
               /\ pc' = [pc EXCEPT ![w] = "cleanup_count"]
               /\ sess' = [sess EXCEPT ![w] =
                              [task |-> [store.task EXCEPT !.status = RUNNING,
                                                           !.error_message = None],
                               loaded |-> store.task]]

\* lines 102-114 in worker w: the counts see the rows committed now
concurrent_cleanup_count(w) ==
    /\ pc[w] = "cleanup_count"
    /\ LET chunk_count == CountChunks(store, store.task.knowledge_base_id)
           doc_count == CountDocuments(store, store.task.knowledge_base_id)
           total == chunk_count + doc_count
       IN /\ call' = [call EXCEPT ![w].chunk_count = chunk_count,
                                  ![w].doc_count = doc_count]
          /\ sess' = [sess EXCEPT ![w].task.progress =
                         Progress(0, total, IF total # 0 THEN "0.0" ELSE None)]
    /\ pc' = [pc EXCEPT ![w] = "cleanup_commit"]
    /\ UNCHANGED <<store, in_transaction, ret, pre>>

\* line 117 in worker w: the pending attributes are written over the row
\* whatever another session committed to it since this one loaded it
concurrent_cleanup_commit(w, fault) ==
    /\ pc[w] = "cleanup_commit"
    /\ IF fault
       THEN /\ pc' = [pc EXCEPT ![w] = "cleanup_except"]
            /\ call' = [call EXCEPT ![w].exc = MsgStore, ![w].cause = "DBAPIError"]
            /\ UNCHANGED <<store, sess>>
       ELSE /\ store' = [store EXCEPT !.task =
                            FlushRow(@, sess[w].loaded, sess[w].task)]
            /\ sess' = [sess EXCEPT ![w] = LoadTask(store')]
            /\ pc' = [pc EXCEPT ![w] = "cleanup_delete"]
            /\ UNCHANGED call
    /\ UNCHANGED <<in_transaction, ret, pre>>

\* lines 118-132 in worker w: the expired task object is loaded again at
\* line 119, the deletes and the last commit follow
concurrent_cleanup_delete(w, fault) ==
    /\ pc[w] = "cleanup_delete"
    /\ LET working == CleanupUnit(store, call[w].chunk_count,
                                  call[w].chunk_count + call[w].doc_count, fault)
       IN IF fault = "none"
          THEN /\ store' = working
               /\ sess' = [sess EXCEPT ![w] = LoadTask(store')]
               /\ pc' = [pc EXCEPT ![w] = "done"]
               /\ ret' = [ret EXCEPT ![w] = Returned]
               /\ UNCHANGED call
          ELSE /\ sess' = [sess EXCEPT ![w] = [task |-> working.task, loaded |-> store.task]]
               /\ pc' = [pc EXCEPT ![w] = "cleanup_except"]
               /\ call' = [call EXCEPT ![w].exc = MsgStore, ![w].cause = "DBAPIError"]
               /\ UNCHANGED <<store, ret>>
    /\ UNCHANGED <<in_transaction, pre>>

\* lines 133-139 in worker w
concurrent_cleanup_except(w) ==
    /\ pc[w] = "cleanup_except"
    /\ store' = [store EXCEPT !.task.status = FAILED,
                              !.task.error_message = call[w].exc]
    /\ sess' = [sess EXCEPT ![w] = LoadTask(store')]
    /\ pc' = [pc EXCEPT ![w] = "done"]
    /\ ret' = [ret EXCEPT ![w] = Returned]
    /\ UNCHANGED <<in_transaction, call, pre>>

\* get_db in worker w: the session is closed
concurrent_cleanup_close(w) ==
    /\ pc[w] = "done"
    /\ pc' = [pc EXCEPT ![w] = "idle"]
    /\ sess' = [sess EXCEPT ![w] = LoadTask(store)]
    /\ in_transaction' = [in_transaction EXCEPT ![w] = FALSE]
    /\ call' = [call EXCEPT ![w] = NoCall]
    /\ ret' = [ret EXCEPT ![w] = NoRet]
    /\ UNCHANGED <<store, pre>>

NextConcurrentCleanup ==
    \/ \E w \in Workers : concurrent_cleanup_begin(w)
    \/ \E w \in Workers : concurrent_cleanup_count(w)
    \/ \E w \in Workers, fault \in BOOLEAN : concurrent_cleanup_commit(w, fault)
    \/ \E w \in Workers, fault \in {"none", "chunks", "documents", "commit"} :
          concurrent_cleanup_delete(w, fault)
    \/ \E w \in Workers : concurrent_cleanup_except(w)
    \/ \E w \in Workers : concurrent_cleanup_close(w)

SpecConcurrentCleanup == InitConcurrentCleanup /\ [][NextConcurrentCleanup]_vars

\* Two calls of persist_embeddings on document 2, one per worker, each on its
\* own session at READ COMMITTED; the caller of a call that returned may
\* commit its session.  Worker 1 ingests chunks of text "a", worker 2 of text
\* "b"; the rows of an earlier ingestion carry the text "p".
WorkerText == (1 :> "a") @@ (2 :> "b")

NoSession ==
    [doc |-> NoDoc, loaded |-> NoDoc, snapshot |-> {}, targets |-> {},
     inserted |-> {}, doc_locked |-> FALSE]

\* Session.get(Document, id) on a session without pending work
LoadDocument(s, document_id) ==
    [NoSession EXCEPT !.doc = GetDocument(s, document_id),
                      !.loaded = GetDocument(s, document_id)]

\* the rows of worker w's chunk list
AttemptChunks(w, n) ==
    {DocumentChunk(1, 2, i, WorkerText[w]) : i \in ChunkIndexes(n)}

\* document 2 of knowledge base 1: just uploaded (k = 0) or ingested before
\* with k chunks
InitConcurrentIngest ==
    /\ \E k \in 0..MaxChunks :
          store = [kbs |-> (1 :> KB_ENABLED) @@ (2 :> KB_ENABLED),
                   documents |-> [d \in 1..(MaxDocs + 1) |->
                                    IF d = 1 THEN Document(2, COMPLETED, 1)
                                    ELSE IF d = 2
                                    THEN Document(1, IF k = 0 THEN PROCESSING ELSE COMPLETED, k)
                                    ELSE NoDoc],
                   chunks |-> {DocumentChunk(2, 1, 0, "a")} \cup
                              {DocumentChunk(1, 2, i, "p") : i \in ChunkIndexes(k)},
                   task |-> NoTask,
                   next_document_id |-> 3]
    /\ sess = [w \in Workers |-> NoSession]
    /\ in_transaction = [w \in Workers |-> FALSE]
    /\ pc = [w \in Workers |-> "idle"]
    /\ call = [w \in Workers |-> NoCall]
    /\ ret = [w \in Workers |-> NoRet]
    /\ pre = store

\* lines 215-227 in worker w
concurrent_persist_begin(w, n) ==
    /\ pc[w] = "idle"
    /\ call' = [call EXCEPT ![w] = [NoCall EXCEPT !.op = "persist_embeddings", !.id = 2,
                                                  !.n = n, !.text = WorkerText[w]]]
    /\ in_transaction' = [in_transaction EXCEPT ![w] = TRUE]
    /\ sess' = [sess EXCEPT ![w] = LoadDocument(store, 2)]
    /\ IF ~GetDocument(store, 2).exists
       THEN /\ ret' = [ret EXCEPT ![w] = AppError(404, "DOCUMENT_NOT_FOUND")]
            /\ pc' = [pc EXCEPT ![w] = "done"]
       ELSE IF GetDocument(store, 2).status = DELETED
       THEN /\ ret' = [ret EXCEPT ![w] = AppError(410, "DOCUMENT_DELETED")]
            /\ pc' = [pc EXCEPT ![w] = "done"]
       ELSE /\ ret' = [ret EXCEPT ![w] = NoRet]
            /\ pc' = [pc EXCEPT ![w] = "persist_embed"]
    /\ UNCHANGED <<store, pre>>

\* lines 231-238 in worker w
concurrent_persist_embed(w, outcome) ==
    /\ pc[w] = "persist_embed"
    /\ LET e == EmbeddingError(outcome, call[w].n)
       IN /\ call' = [call EXCEPT ![w].embedded = TRUE, ![w].vectors = outcome.vectors,
                                  ![w].exc = e.exc, ![w].cause = e.cause]
          /\ pc' = [pc EXCEPT ![w] = IF e.cause = None THEN "persist_delete"
                                                       ELSE "persist_except"]
    /\ UNCHANGED <<store, sess, in_transaction, ret, pre>>

\* line 242 in worker w, the DELETE statement starts: it works on the chunk
\* rows of the document that are committed at this moment
concurrent_persist_delete(w) ==
    /\ pc[w] = "persist_delete"
    /\ sess' = [sess EXCEPT ![w].snapshot = ChunksOf(store, call[w].id)]
    /\ pc' = [pc EXCEPT ![w] = "persist_flush"]
    /\ UNCHANGED <<store, in_transaction, call, ret, pre>>

\* the attributes lines 254-256 leave changed on the loaded document
PendingDocument(doc, n) ==
    [doc EXCEPT !.chunk_count = n, !.status = COMPLETED, !.error_message = None]

\* lines 242-256 in worker w, to the end of the block: the DELETE waits for
\* the rows another transaction has deleted and removes what is left of the
\* rows it started with; the flush at the end of the block writes the UPDATE
\* of the document (waiting for the row if another transaction has updated
\* it) and the INSERTs.  Nothing is committed.
concurrent_persist_write(w) ==
    /\ pc[w] = "persist_flush"
    /\ LET pending == PendingDocument(sess[w].doc, call[w].n)
           update == pending # sess[w].loaded
       IN /\ \A o \in Workers \ {w} :
                /\ sess[w].snapshot \cap sess[o].targets = {}
                /\ update => ~sess[o].doc_locked
          /\ sess' = [sess EXCEPT ![w].targets = sess[w].snapshot \cap store.chunks,
                                  ![w].inserted = AttemptChunks(w, call[w].n),
                                  ![w].doc = pending,
                                  ![w].doc_locked = update]
    /\ pc' = [pc EXCEPT ![w] = "done"]
    /\ ret' = [ret EXCEPT ![w] = Returned]
    /\ UNCHANGED <<store, in_transaction, call, pre>>

\* lines 257-269 in worker w
concurrent_persist_except(w) ==
    /\ pc[w] = "persist_except"
    /\ \A o \in Workers \ {w} : ~sess[o].doc_locked
    /\ store' = MarkFailed(store, call[w].id, call[w].exc)
    /\ sess' = [sess EXCEPT ![w] = LoadDocument(store', call[w].id)]
    /\ in_transaction' = [in_transaction EXCEPT ![w] = FALSE]
    /\ pc' = [pc EXCEPT ![w] = "done"]
    /\ ret' = [ret EXCEPT ![w] = AppError(500, "INTERNAL_ERROR")]
    /\ UNCHANGED <<call, pre>>

\* get_db in worker w: the caller of a call that returned may commit; the
\* session is closed and what it did not commit is rolled back
concurrent_persist_close(w, commit) ==
    /\ pc[w] = "done"
    /\ commit => ret[w].kind = "returned"
    /\ store' = IF commit
                THEN [store EXCEPT
                        !.chunks = (@ \ sess[w].targets) \cup sess[w].inserted,
                        !.documents[call[w].id] =
                            FlushRow(@, sess[w].loaded, sess[w].doc)]
                ELSE store
    /\ sess' = [sess EXCEPT ![w] = NoSession]
    /\ in_transaction' = [in_transaction EXCEPT ![w] = FALSE]
    /\ pc' = [pc EXCEPT ![w] = "closed"]
    /\ UNCHANGED <<call, ret, pre>>

NextConcurrentIngest ==
    \/ \E w \in Workers, n \in 0..MaxChunks : concurrent_persist_begin(w, n)
    \/ \E w \in Workers, m \in EmbedMessages :
          concurrent_persist_embed(w, [raised |-> TRUE, message |-> m, vectors |-> <<>>])
    \/ \E w \in Workers : concurrent_persist_embed(w, GoodEmbedding(call[w].n))
    \/ \E w \in Workers : concurrent_persist_delete(w)
    \/ \E w \in Workers : concurrent_persist_write(w)
    \/ \E w \in Workers : concurrent_persist_except(w)
    \/ \E w \in Workers, commit \in BOOLEAN : concurrent_persist_close(w, commit)

SpecConcurrentIngest == InitConcurrentIngest /\ [][NextConcurrentIngest]_vars

\* ------------------------------------------- knowledge base administration
\* Knowledge bases with their name and description: knowledge base 1 is the
\* one the requests address, knowledge base 2 holds the name "n2".
KbNames == {"n1", "n2", "n3"}
KbDescriptions == {"d1"}

\* KnowledgeBaseUpdate: every field is optional
KnowledgeBaseUpdate ==
    [name : KbNames \cup {None},
     description : KbDescriptions \cup {None},
     status : {None, KB_ENABLED, KB_DISABLED, KB_DELETED}]

InitKb ==
    /\ store = [kbs |-> (1 :> KB_ENABLED) @@ (2 :> KB_ENABLED),
                kb_name |-> (1 :> "n1") @@ (2 :> "n2"),
                kb_description |-> (1 :> None) @@ (2 :> "d1"),
                documents |-> [d \in 1..(MaxDocs + 1) |->
                                 IF d = 1 THEN Document(2, COMPLETED, 1) ELSE NoDoc],
                chunks |-> {DocumentChunk(2, 1, 0, "a")},
                task |-> NoTask,
                next_document_id |-> 2]
    /\ sess = store
    /\ in_transaction = FALSE
    /\ pc = "idle"
    /\ call = NoCall
    /\ ret = NoRet
    /\ pre = store

\* lines 151-162: the name is taken by another knowledge base
NameConflict(s, kb_id, payload) ==
    /\ payload.name # None
    /\ payload.name # s.kb_name[kb_id]
    /\ \E o \in DOMAIN s.kb_name \ {kb_id} : s.kb_name[o] = payload.name

\* lines 151-166: name and description as the payload sets them on the object
ApplyNameDescription(s, kb_id, payload) ==
    [s EXCEPT !.kb_name[kb_id] = IF payload.name # None THEN payload.name ELSE @,
              !.kb_description[kb_id] =
                  IF payload.description # None THEN payload.description ELSE @]

\* mutant of update_knowledge_base: a DELETED knowledge base is updated as well
update_knowledge_base_deleted_too(kb_id, payload) ==
    /\ Begin("update_knowledge_base", kb_id, 0, None)
    /\ pc' = "done"
    /\ in_transaction' = TRUE
    /\ IF GetKb(sess, kb_id) = None
       THEN /\ ret' = AppError(404, "KNOWLEDGE_BASE_NOT_FOUND")
            /\ UNCHANGED <<store, sess>>
       ELSE IF NameConflict(sess, kb_id, payload)
       THEN /\ ret' = AppError(409, "KNOWLEDGE_BASE_NAME_CONFLICT")
            /\ UNCHANGED <<store, sess>>
       ELSE IF payload.status = KB_DELETED
       THEN /\ ret' = AppError(409, "KNOWLEDGE_BASE_DELETED")
            /\ sess' = ApplyNameDescription(sess, kb_id, payload)
            /\ UNCHANGED store
       ELSE /\ store' = [ApplyNameDescription(store, kb_id, payload) EXCEPT
                           !.kbs[kb_id] = IF payload.status # None THEN payload.status ELSE @]
            /\ sess' = store'
            /\ ret' = Returned

\* mutant of update_knowledge_base: name and description are written before
\* status DELETED in the payload is refused
update_knowledge_base_commits_pending(kb_id, payload) ==
    /\ Begin("update_knowledge_base", kb_id, 0, None)
    /\ pc' = "done"
    /\ in_transaction' = TRUE
    /\ IF GetKb(sess, kb_id) = None
       THEN /\ ret' = AppError(404, "KNOWLEDGE_BASE_NOT_FOUND")
            /\ UNCHANGED <<store, sess>>
       ELSE IF GetKb(sess, kb_id) = KB_DELETED
       THEN /\ ret' = AppError(409, "KNOWLEDGE_BASE_DELETED")
            /\ UNCHANGED <<store, sess>>
       ELSE IF NameConflict(sess, kb_id, payload)
       THEN /\ ret' = AppError(409, "KNOWLEDGE_BASE_NAME_CONFLICT")
            /\ UNCHANGED <<store, sess>>
       ELSE IF payload.status = KB_DELETED
       THEN /\ ret' = AppError(409, "KNOWLEDGE_BASE_DELETED")
            /\ store' = ApplyNameDescription(store, kb_id, payload)
            /\ sess' = store'
       ELSE /\ store' = [ApplyNameDescription(store, kb_id, payload) EXCEPT
                           !.kbs[kb_id] = IF payload.status # None THEN payload.status ELSE @]
            /\ sess' = store'
            /\ ret' = Returned

\* lines 137-186.  The refusal of status DELETED in the payload (line 169)
\* comes after name and description were set on the object: they are pending
\* in the session when the error leaves the function.
update_knowledge_base(kb_id, payload) ==
    /\ Begin("update_knowledge_base", kb_id, 0, None)
    /\ pc' = "done"
    /\ in_transaction' = TRUE
    /\ IF GetKb(sess, kb_id) = None
       THEN /\ ret' = AppError(404, "KNOWLEDGE_BASE_NOT_FOUND")
            /\ UNCHANGED <<store, sess>>
       ELSE IF GetKb(sess, kb_id) = KB_DELETED
       THEN /\ ret' = AppError(409, "KNOWLEDGE_BASE_DELETED")
            /\ UNCHANGED <<store, sess>>
       ELSE IF NameConflict(sess, kb_id, payload)
       THEN /\ ret' = AppError(409, "KNOWLEDGE_BASE_NAME_CONFLICT")
            /\ UNCHANGED <<store, sess>>
       ELSE IF payload.status = KB_DELETED
       THEN /\ ret' = AppError(409, "KNOWLEDGE_BASE_DELETED")
            /\ sess' = ApplyNameDescription(sess, kb_id, payload)
            /\ UNCHANGED store
       ELSE /\ store' = [ApplyNameDescription(store, kb_id, payload) EXCEPT
                           !.kbs[kb_id] = IF payload.status # None THEN payload.status ELSE @]
            /\ sess' = store'
            /\ ret' = Returned

NextKb ==
    \/ \E kb_id \in KbInputs : create_document(kb_id)
    \/ \E kb_id \in KbInputs, payload \in KnowledgeBaseUpdate :
          update_knowledge_base(kb_id, payload)
    \/ \E kb_id \in KbInputs : delete_knowledge_base(kb_id)
    \/ \E commit \in BOOLEAN : get_db_close(commit)

SpecKb == InitKb /\ [][NextKb]_vars

\* ------------------------------------------------- knowledge-base search
\* search_chunks (called by stream_chat, app/api/chat.py:109) per section
\* 4.3 of the specification: the knowledge base must exist and be ENABLED;
\* the candidates are the chunks of its COMPLETED documents; the ranked
\* candidates are cut to top_k; a rerank error fails the request.
MaxTopK == 2

SearchReturned(results) ==
    [kind |-> "returned", code |-> None, status_code |-> 0, results |-> results]

Candidates(s, kb_id) ==
    {c \in s.chunks :
        /\ c.knowledge_base_id = kb_id
        /\ GetDocument(s, c.document_id).exists
        /\ GetDocument(s, c.document_id).knowledge_base_id = kb_id
        /\ GetDocument(s, c.document_id).status = COMPLETED}

\* the results a ranking may leave: top_k of the candidates, or all of them
TopK(candidates, top_k) ==
    {r \in SUBSET candidates :
        Cardinality(r) = IF Cardinality(candidates) < top_k
                         THEN Cardinality(candidates) ELSE top_k}

\* mutant of search_chunks: the candidates are the chunks of every document
\* of the knowledge base, whatever the state of either
search_chunks_unfiltered(kb_id, top_k, rerank_fails) ==
    /\ Begin("search_chunks", kb_id, top_k, None)
    /\ pc' = "done"
    /\ in_transaction' = TRUE
    /\ UNCHANGED <<store, sess>>
    /\ IF GetKb(sess, kb_id) = None
       THEN ret' = AppError(404, "KNOWLEDGE_BASE_NOT_FOUND")
       ELSE IF rerank_fails
       THEN ret' = AppError(500, "INTERNAL_ERROR")
       ELSE \E r \in TopK({c \in sess.chunks : c.knowledge_base_id = kb_id}, top_k) :
               ret' = SearchReturned(r)

search_chunks(kb_id, top_k, rerank_fails) ==
    /\ Begin("search_chunks", kb_id, top_k, None)
    /\ pc' = "done"
    /\ in_transaction' = TRUE
    /\ UNCHANGED <<store, sess>>
    /\ IF GetKb(sess, kb_id) = None
       THEN ret' = AppError(404, "KNOWLEDGE_BASE_NOT_FOUND")
       ELSE IF GetKb(sess, kb_id) \in {KB_DISABLED, KB_DELETED}
       THEN ret' = AppError(403, "KNOWLEDGE_BASE_UNAVAILABLE")
       ELSE IF rerank_fails
       THEN ret' = AppError(500, "INTERNAL_ERROR")
       ELSE \E r \in TopK(Candidates(sess, kb_id), top_k) :
               ret' = SearchReturned(r)

\* status changes of a knowledge base alone
StatusUpdates ==
    {p \in KnowledgeBaseUpdate : p.name = None /\ p.description = None}

\* uploads, ingestion attempts that succeed (committed by their caller or
\* not) or fail in embed_fn, deletions of documents, status changes and
\* deletion of the knowledge base, and searches
NextSearch ==
    \/ \E kb_id \in KbInputs : create_document(kb_id)
    \/ \E d \in DocInputs : delete_document(d)
    \/ \E d \in DocInputs, n \in 0..MaxChunks : persist_embeddings_begin(d, n, "a")
    \/ persist_embeddings_embed(GoodEmbedding(call.n))
    \/ persist_embeddings_embed([raised |-> TRUE, message |-> "embed_fn failed",
                                 vectors |-> <<>>])
    \/ persist_embeddings_write("none")
    \/ persist_embeddings_except
    \/ \E kb_id \in KbInputs, payload \in StatusUpdates :
          update_knowledge_base(kb_id, payload)
    \/ \E kb_id \in KbInputs : delete_knowledge_base(kb_id)
    \/ \E kb_id \in KbInputs, top_k \in 1..MaxTopK, rerank_fails \in BOOLEAN :
          search_chunks(kb_id, top_k, rerank_fails)
    \/ \E commit \in BOOLEAN : get_db_close(commit)

SpecSearch == InitKb /\ [][NextSearch]_vars

\* ---------------------------------------------------------------- chunker
\* app/services/chunker.py.  A text is a sequence of characters, a token a
\* non-empty sequence of characters without whitespace.
MaxTextLen == 7
MaxChunkSize == 3

Chars == {"a", " "}

ScenarioAText == <<"a", " ", "b", " ", "c", " ", "d", " ", "e">>

ChunkerTexts ==
    UNION {[1..k -> Chars] : k \in 0..MaxTextLen} \cup {ScenarioAText}

\* str.split(): the maximal runs of characters that are not whitespace
RECURSIVE Split(_, _, _)
Split(text, i, token) ==
    IF i > Len(text)
    THEN IF token = <<>> THEN <<>> ELSE <<token>>
    ELSE IF text[i] = " "
    THEN (IF token = <<>> THEN <<>> ELSE <<token>>) \o Split(text, i + 1, <<>>)
    ELSE Split(text, i + 1, Append(token, text[i]))

_simple_tokenize(text) == Split(text, 1, <<>>)

\* " ".join(tokens)
RECURSIVE _simple_detokenize(_)
_simple_detokenize(tokens) ==
    IF tokens = <<>> THEN <<>>
    ELSE IF Len(tokens) = 1 THEN tokens[1]
    ELSE tokens[1] \o <<" ">> \o _simple_detokenize(Tail(tokens))

\* Chunk(chunk_index, text, metadata) with the metadata keys the function sets
Chunk(chunk_index, text, token_start, token_end) ==
    [chunk_index |-> chunk_index, text |-> text,
     token_start |-> token_start, token_end |-> token_end]

ChunksReturned(chunks) ==
    [kind |-> "returned", code |-> None, status_code |-> 0, chunks |-> chunks]

Min(a, b) == IF a < b THEN a ELSE b

NoStore ==
    [kbs |-> <<>>, documents |-> <<>>, chunks |-> {}, task |-> NoTask,
     next_document_id |-> 1]

\* a call split_text_into_chunks(text, chunk_size=..., overlap=...) about to run
InitChunker ==
    /\ store = NoStore
    /\ sess = NoStore
    /\ pre = NoStore
    /\ in_transaction = FALSE
    /\ pc = "split_text_into_chunks"
    /\ ret = NoRet
    /\ \E text \in ChunkerTexts, chunk_size \in -1..MaxChunkSize,
          overlap \in -1..MaxChunkSize :
          call = [op |-> "split_text_into_chunks", text |-> text,
                  chunk_size |-> chunk_size, overlap |-> overlap,
                  tokens |-> <<>>, start |-> 0, index |-> 0, chunks |-> <<>>]

\* mutant of split_text_into_chunks_validate: the text is tokenized, and an
\* empty token list returned, before the arguments are looked at
split_text_into_chunks_tokenize_first ==
    /\ pc = "split_text_into_chunks"
    /\ UNCHANGED <<store, sess, pre, in_transaction>>
    /\ LET tokens == _simple_tokenize(call.text) IN
       IF tokens = <<>>
       THEN /\ ret' = ChunksReturned(<<>>)
            /\ pc' = "done"
            /\ call' = call
       ELSE IF call.chunk_size <= 0 \/ call.overlap < 0 \/ call.overlap >= call.chunk_size
       THEN /\ ret' = Unhandled("ValueError")
            /\ pc' = "done"
            /\ call' = call
       ELSE /\ call' = [call EXCEPT !.tokens = tokens]
            /\ pc' = "while"
            /\ ret' = ret

\* lines 83-96: the argument checks, then tokenize and the empty case
split_text_into_chunks_validate ==
    /\ pc = "split_text_into_chunks"
    /\ UNCHANGED <<store, sess, pre, in_transaction>>
    /\ IF call.chunk_size <= 0
       THEN /\ ret' = Unhandled("ValueError")
            /\ pc' = "done"
            /\ call' = call
       ELSE IF call.overlap < 0 \/ call.overlap >= call.chunk_size
       THEN /\ ret' = Unhandled("ValueError")
            /\ pc' = "done"
            /\ call' = call
       ELSE LET tokens == _simple_tokenize(call.text) IN
            IF tokens = <<>>
            THEN /\ ret' = ChunksReturned(<<>>)
                 /\ pc' = "done"
                 /\ call' = call
            ELSE /\ call' = [call EXCEPT !.tokens = tokens]
                 /\ pc' = "while"
                 /\ ret' = ret

\* tokens[start:end]: a slice stops at the end of the list
Slice(tokens, start, end) == SubSeq(tokens, start + 1, Min(end, Len(tokens)))

\* one pass of the loop with the chunk's end at `end`
WhileBody(end, next_start) ==
    LET chunk == Chunk(call.index,
                       _simple_detokenize(Slice(call.tokens, call.start, end)),
                       call.start, end)
        chunks == Append(call.chunks, chunk)
    IN IF end = Len(call.tokens)
       THEN /\ call' = [call EXCEPT !.chunks = chunks]
            /\ ret' = ChunksReturned(chunks)
            /\ pc' = "done"
       ELSE /\ call' = [call EXCEPT !.chunks = chunks, !.start = next_start,
                                    !.index = call.index + 1]
            /\ ret' = ret
            /\ pc' = "while"

\* mutant of split_text_into_chunks_while: the next chunk starts where the
\* last one ended
split_text_into_chunks_while_no_overlap ==
    /\ pc = "while"
    /\ UNCHANGED <<store, sess, pre, in_transaction>>
    /\ IF call.start < Len(call.tokens)
       THEN LET end == Min(call.start + call.chunk_size, Len(call.tokens))
            IN WhileBody(end, end)
       ELSE /\ ret' = ChunksReturned(call.chunks)
            /\ pc' = "done"
            /\ call' = call

\* mutant of split_text_into_chunks_while: a chunk always spans chunk_size
split_text_into_chunks_while_no_min ==
    /\ pc = "while"
    /\ UNCHANGED <<store, sess, pre, in_transaction>>
    /\ IF call.start < Len(call.tokens)
       THEN LET end == call.start + call.chunk_size
            IN WhileBody(end, end - call.overlap)
       ELSE /\ ret' = ChunksReturned(call.chunks)
            /\ pc' = "done"
            /\ call' = call

\* lines 97-114: one test of the loop condition and one pass of its body
split_text_into_chunks_while ==
    /\ pc = "while"
    /\ UNCHANGED <<store, sess, pre, in_transaction>>
    /\ IF call.start < Len(call.tokens)
       THEN LET end == Min(call.start + call.chunk_size, Len(call.tokens))
            IN WhileBody(end, end - call.overlap)
       ELSE /\ ret' = ChunksReturned(call.chunks)
            /\ pc' = "done"
            /\ call' = call

NextChunker ==
    \/ split_text_into_chunks_validate
    \/ split_text_into_chunks_while

SpecChunker == InitChunker /\ [][NextChunker]_vars

\* a call that has started runs on: nothing else is scheduled in between
SpecChunkerLive == SpecChunker /\ WF_vars(NextChunker)

\* ---------------------------------------------------------- hybrid search
\* app/services/retriever.py and the endpoint of app/api/search.py.
\* A distance or a keyword score is a whole number of 1/100000, a similarity
\* a whole number of 1/10000.
MaxHits == 2
MaxCutoff == 2
MaxItems == 2

DocIds == 1..3

\* values none of which lies halfway between two neighbours of 4 decimals
Distances == {40000, 100000, 33333}
Scores == {90000, 50004}

\* round(numerator / per): to the nearest whole number
Round(numerator, per) ==
    LET q == numerator \div per
        r == numerator % per
    IN IF 2 * r < per THEN q
       ELSE IF 2 * r > per THEN q + 1
       ELSE IF q % 2 = 0 THEN q ELSE q + 1

\* round(1 - distance / 2, 4)
_distance_to_similarity(distance) == Round(200000 - distance, 20)

\* round(score, 4)
RoundScore(score) == Round(score, 10)

Max(a, b) == IF a > b THEN a ELSE b

\* the rows of one query: no id twice
Hits(values) ==
    {h \in UNION {[1..k -> DocIds \X values] : k \in 0..MaxHits} :
        \A i, j \in 1..Len(h) : i # j => h[i][1] # h[j][1]}

\* ORDER BY distance
VectorHits ==
    {h \in Hits(Distances) : \A i \in 1..(Len(h) - 1) : h[i][2] <= h[i + 1][2]}

\* ORDER BY rank DESC
KeywordHits ==
    {h \in Hits(Scores) : \A i \in 1..(Len(h) - 1) : h[i][2] >= h[i + 1][2]}

\* the place of a key in a dict kept in insertion order, 0 when absent
RECURSIVE IndexOfId(_, _, _)
IndexOfId(combined, id, i) ==
    IF i > Len(combined) THEN 0
    ELSE IF combined[i].id = id THEN i
    ELSE IndexOfId(combined, id, i + 1)

\* lines 324-328: combined[doc.id] = {...} for each vector row
RECURSIVE PutVector(_, _)
PutVector(combined, vector_results) ==
    IF vector_results = <<>> THEN combined
    ELSE LET id == Head(vector_results)[1]
             item == [id |-> id,
                      similarity |-> _distance_to_similarity(Head(vector_results)[2])]
             at == IndexOfId(combined, id, 1)
         IN PutVector(IF at = 0 THEN Append(combined, item)
                      ELSE [combined EXCEPT ![at] = item],
                      Tail(vector_results))

\* as PutKeyword, but the keyword score replaces the similarity of an id the
\* vector search found
RECURSIVE PutKeywordOverwrites(_, _)
PutKeywordOverwrites(combined, keyword_results) ==
    IF keyword_results = <<>> THEN combined
    ELSE LET id == Head(keyword_results)[1]
             similarity == RoundScore(Head(keyword_results)[2])
             at == IndexOfId(combined, id, 1)
         IN PutKeywordOverwrites(
                IF at = 0 THEN Append(combined, [id |-> id, similarity |-> similarity])
                ELSE [combined EXCEPT ![at].similarity = similarity],
                Tail(keyword_results))

\* lines 330-338: the larger similarity for an id already there
RECURSIVE PutKeyword(_, _)
PutKeyword(combined, keyword_results) ==
    IF keyword_results = <<>> THEN combined
    ELSE LET id == Head(keyword_results)[1]
             similarity == RoundScore(Head(keyword_results)[2])
             at == IndexOfId(combined, id, 1)
         IN PutKeyword(
                IF at = 0 THEN Append(combined, [id |-> id, similarity |-> similarity])
                ELSE [combined EXCEPT ![at].similarity = Max(@, similarity)],
                Tail(keyword_results))

\* list.sort(key=similarity, reverse=True): stable
RECURSIVE InsertBySimilarity(_, _)
InsertBySimilarity(sorted, item) ==
    IF sorted = <<>> THEN <<item>>
    ELSE IF Head(sorted).similarity >= item.similarity
    THEN <<Head(sorted)>> \o InsertBySimilarity(Tail(sorted), item)
    ELSE <<item>> \o sorted

RECURSIVE SortBySimilarity(_, _)
SortBySimilarity(sorted, results) ==
    IF results = <<>> THEN sorted
    ELSE SortBySimilarity(InsertBySimilarity(sorted, Head(results)), Tail(results))

\* mutant of _merge_results: no max of the two similarities
_merge_results_keyword_wins(vector_results, keyword_results) ==
    SortBySimilarity(<<>>, PutKeywordOverwrites(PutVector(<<>>, vector_results),
                                                keyword_results))

\* lines 318-354
_merge_results(vector_results, keyword_results) ==
    SortBySimilarity(<<>>, PutKeyword(PutVector(<<>>, vector_results), keyword_results))

\* documents[:top_k]
SliceTo(documents, top_k) ==
    IF top_k >= 0
    THEN SubSeq(documents, 1, Min(top_k, Len(documents)))
    ELSE SubSeq(documents, 1, Max(Len(documents) + top_k, 0))

\* what the rerank provider answers: a field of an item is <<value>>, or
\* Missing when the item has no such key; index 9 is past every candidate list
Missing == <<>>
RerankItems ==
    {[index |-> <<i>>, relevance_score |-> <<7>>] : i \in {-1, 0, 1, 9}}
    \cup {[index |-> Missing, relevance_score |-> <<7>>],
          [index |-> <<0>>, relevance_score |-> Missing]}
RerankResponses ==
    {[kind |-> k, results |-> <<>>] : k \in {"unconfigured", "http_error", "not_an_object"}}
    \cup {[kind |-> "json", results |-> r] :
            r \in UNION {[1..k -> RerankItems] : k \in 0..MaxItems}}

\* lines 289-295: documents[idx] with a rerank_score, KeyError and IndexError
\* ending the loop; [failed |-> TRUE] is the exception
RECURSIVE Reranked(_, _, _)
Reranked(documents, results, reranked) ==
    IF results = <<>> THEN [failed |-> FALSE, reranked |-> reranked]
    ELSE LET item == Head(results)
             idx == item.index[1]
             score == item.relevance_score[1]
         IN IF item.index = Missing \/ item.relevance_score = Missing
            THEN [failed |-> TRUE, reranked |-> <<>>]
            ELSE IF idx >= Len(documents) \/ idx < -Len(documents)
            THEN [failed |-> TRUE, reranked |-> <<>>]
            ELSE LET doc == documents[IF idx >= 0 THEN idx + 1
                                      ELSE Len(documents) + idx + 1]
                 IN Reranked(documents, Tail(results),
                             Append(reranked,
                                    [id |-> doc.id, similarity |-> doc.similarity,
                                     rerank_score |-> score]))

rerank(documents, top_k, response) ==
    IF documents = <<>> THEN <<>>
    ELSE IF response.kind = "unconfigured" THEN SliceTo(documents, top_k)
    ELSE IF response.kind \in {"http_error", "not_an_object"}
    THEN SliceTo(documents, top_k)
    ELSE LET r == Reranked(documents, response.results, <<>>)
         IN IF r.failed THEN SliceTo(documents, top_k)
            ELSE IF r.reranked = <<>> THEN SliceTo(documents, top_k)
            ELSE r.reranked

\* a request to POST /search/ about to run hybrid_search, with the rows its
\* two queries find and the configuration of the process
InitHybrid ==
    /\ store = NoStore
    /\ sess = NoStore
    /\ pre = NoStore
    /\ in_transaction = FALSE
    /\ pc = "hybrid_search"
    /\ ret = NoRet
    /\ \E top_k \in 1..MaxHits, vector_hits \in VectorHits, keyword_hits \in KeywordHits,
          KEYWORD_SEARCH_ENABLED \in BOOLEAN, RERANK_TOP_K \in 0..MaxCutoff,
          use_rerank \in BOOLEAN :
          /\ Len(vector_hits) <= top_k
          /\ call = [op |-> "hybrid_search", top_k |-> top_k,
                     rerank_top_k |-> RERANK_TOP_K, use_rerank |-> use_rerank,
                     KEYWORD_SEARCH_ENABLED |-> KEYWORD_SEARCH_ENABLED,
                     vector_hits |-> vector_hits, keyword_hits |-> keyword_hits,
                     vector_results |-> <<>>, keyword_results |-> <<>>,
                     merged |-> FALSE, documents |-> <<>>,
                     reranked |-> FALSE, response |-> None]

\* lines 368-379: the two searches and the merge
hybrid_search_merge ==
    /\ pc = "hybrid_search"
    /\ UNCHANGED <<store, sess, pre, in_transaction>>
    /\ LET vector_results == call.vector_hits
           keyword_results == IF call.KEYWORD_SEARCH_ENABLED
                              THEN call.keyword_hits ELSE <<>>
           documents == _merge_results(vector_results, keyword_results)
       IN /\ call' = [call EXCEPT !.vector_results = vector_results,
                                  !.keyword_results = keyword_results,
                                  !.merged = TRUE, !.documents = documents]
          /\ IF documents = <<>>
             THEN /\ ret' = SearchReturned(<<>>)
                  /\ pc' = "done"
             ELSE /\ ret' = ret
                  /\ pc' = "rerank"

\* mutant of hybrid_search_rerank: rerank runs whenever use_rerank is set
hybrid_search_rerank_always(response) ==
    /\ pc = "rerank"
    /\ UNCHANGED <<store, sess, pre, in_transaction>>
    /\ pc' = "done"
    /\ IF call.use_rerank
       THEN /\ call' = [call EXCEPT !.reranked = TRUE, !.response = response]
            /\ ret' = SearchReturned(rerank(call.documents, call.rerank_top_k, response))
       ELSE /\ call' = call
            /\ ret' = SearchReturned(SliceTo(call.documents, call.rerank_top_k))

\* lines 381-386 and the endpoint's response: rerank or the cut
hybrid_search_rerank(response) ==
    /\ pc = "rerank"
    /\ UNCHANGED <<store, sess, pre, in_transaction>>
    /\ pc' = "done"
    /\ IF call.use_rerank /\ Len(call.documents) > call.rerank_top_k
          /\ call.rerank_top_k > 0
       THEN /\ call' = [call EXCEPT !.reranked = TRUE, !.response = response]
            /\ ret' = SearchReturned(rerank(call.documents, call.rerank_top_k, response))
       ELSE /\ call' = call
            /\ ret' = SearchReturned(SliceTo(call.documents, call.rerank_top_k))

NextHybrid ==
    \/ hybrid_search_merge
    \/ \E response \in RerankResponses : hybrid_search_rerank(response)

SpecHybrid == InitHybrid /\ [][NextHybrid]_vars

\* ---------------------------------------------------------------- reranker
\* app/services/reranker.py: rerank_texts, the rerank_fn of the
\* knowledge-base search.  A score is a whole number, 0 standing for 0.0.
MaxCandidates == 2

Absent == [present |-> FALSE, list |-> <<>>]
Present(list) == [present |-> TRUE, list |-> list]

\* an item of "results" (or a dict of "data"): its index and its score, each
\* <<value>> or Missing
ScoreItems ==
    [index : {Missing, <<0>>, <<1>>, <<9>>}, relevance_score : {Missing, <<7>>, <<8>>}]

ScoreLists == UNION {[1..k -> ScoreItems] : k \in 0..MaxItems}
NumberLists == UNION {[1..k -> {7, 8}] : k \in 0..MaxItems}

\* the JSON body of a 2xx answer: no object, or an object with one of the
\* keys the parser knows, or with none of them
RerankPayloads ==
    {[object |-> FALSE, results |-> Absent, data |-> Absent, scores |-> Absent]}
    \cup {[object |-> TRUE, results |-> Present(l), data |-> Absent, scores |-> Absent] :
            l \in ScoreLists}
    \cup {[object |-> TRUE, results |-> Absent, data |-> Present(l), scores |-> Absent] :
            l \in NumberLists}
    \cup {[object |-> TRUE, results |-> Absent, data |-> Absent, scores |-> Present(l)] :
            l \in NumberLists}
    \cup {[object |-> TRUE, results |-> Absent, data |-> Absent, scores |-> Absent]}

\* what httpx.post ends in
RerankAnswers ==
    {[kind |-> k, payload |-> None] : k \in {"request_error", "status_error"}}
    \cup {[kind |-> "ok", payload |-> p] : p \in RerankPayloads}

\* lines 149-160: the loop over enumerate(results)
RECURSIVE FillScores(_, _, _, _, _)
FillScores(results, index, scores, filled, total) ==
    IF index >= Len(results) THEN [scores |-> scores, filled |-> filled]
    ELSE LET item == results[index + 1]
             idx == IF item.index = Missing THEN index ELSE item.index[1]
         IN IF 0 <= idx /\ idx < total /\ item.relevance_score # Missing
            THEN FillScores(results, index + 1,
                            [scores EXCEPT ![idx + 1] = item.relevance_score[1]],
                            filled + 1, total)
            ELSE FillScores(results, index + 1, scores, filled, total)

\* lines 145-172
_parse_rerank_response(payload, total) ==
    IF ~payload.object THEN <<>>
    ELSE IF payload.results.present
            /\ FillScores(payload.results.list, 0, [i \in 1..total |-> 0], 0, total).filled > 0
    THEN FillScores(payload.results.list, 0, [i \in 1..total |-> 0], 0, total).scores
    ELSE IF payload.data.present /\ payload.data.list # <<>> THEN payload.data.list
    ELSE IF payload.scores.present THEN payload.scores.list
    ELSE <<>>

ScoresReturned(scores) ==
    [kind |-> "returned", code |-> None, status_code |-> 0, scores |-> scores]

\* AppError(502, UPSTREAM_RERANK_ERROR) with the code of its detail
RerankError(detail) ==
    [kind |-> "raised", code |-> "UPSTREAM_RERANK_ERROR", status_code |-> 502,
     detail |-> detail]

\* a call rerank_texts(query, candidates) about to run
InitRerank ==
    /\ store = NoStore
    /\ sess = NoStore
    /\ pre = NoStore
    /\ in_transaction = FALSE
    /\ pc = "rerank_texts"
    /\ ret = NoRet
    /\ \E candidates \in 0..MaxCandidates, configured \in BOOLEAN :
          call = [op |-> "rerank_texts", candidates |-> candidates,
                  configured |-> configured, posted |-> FALSE, answer |-> None]

\* lines 33-60: the empty list and the settings
rerank_texts_begin ==
    /\ pc = "rerank_texts"
    /\ UNCHANGED <<store, sess, pre, in_transaction, call>>
    /\ IF call.candidates = 0
       THEN ret' = ScoresReturned(<<>>) /\ pc' = "done"
       ELSE IF ~call.configured
       THEN ret' = AppError(503, "SERVICE_UNAVAILABLE") /\ pc' = "done"
       ELSE ret' = ret /\ pc' = "post"

\* lines 61-93: the remote call, the parse and the count check
rerank_texts_post(answer) ==
    /\ pc = "post"
    /\ UNCHANGED <<store, sess, pre, in_transaction>>
    /\ call' = [call EXCEPT !.posted = TRUE, !.answer = answer]
    /\ pc' = "done"
    /\ IF answer.kind = "request_error" THEN ret' = RerankError("REQUEST_ERROR")
       ELSE IF answer.kind = "status_error" THEN ret' = RerankError("STATUS")
       ELSE LET scores == _parse_rerank_response(answer.payload, call.candidates)
            IN IF Len(scores) # call.candidates
               THEN ret' = RerankError("COUNT_MISMATCH")
               ELSE ret' = ScoresReturned(scores)

NextRerank ==
    \/ rerank_texts_begin
    \/ \E answer \in RerankAnswers : rerank_texts_post(answer)

SpecRerank == InitRerank /\ [][NextRerank]_vars

\* ------------------------------------------------------------ chat stream
\* stream_chat (app/api/chat.py) and the default streamer of
\* app/services/llm_client.py.  A line of the model's answer is a record:
\* a delta with content, or one of the lines the streamer passes over.
MaxLines == 3

Deltas == {"x", "y"}

ModelLines ==
    {[kind |-> k, content |-> None] :
        k \in {"blank", "comment", "no_data", "bad_json", "no_content", "[DONE]"}}
    \cup {[kind |-> "delta", content |-> d] : d \in Deltas}

\* _format_sse_event(event, payload)
SseEvent(event, content) == [event |-> event, content |-> content]

\* a request to POST /chat/stream: the readiness of the two models and what
\* the retrieval (embed_texts, search_chunks) ends in
InitStream ==
    /\ store = NoStore
    /\ sess = NoStore
    /\ pre = NoStore
    /\ in_transaction = FALSE
    /\ pc = "stream_chat"
    /\ ret = NoRet
    /\ \E ready \in BOOLEAN, retrieval \in {"results", "no_result", "raised"} :
          call = [op |-> "stream_chat", ready |-> ready, retrieval |-> retrieval,
                  retrieved |-> FALSE, events |-> <<>>, produced |-> <<>>, lines |-> 0]

\* lines 91-137: the checks, the retrieval and the StreamingResponse
stream_chat ==
    /\ pc = "stream_chat"
    /\ UNCHANGED <<store, sess, pre, in_transaction>>
    /\ IF ~call.ready
       THEN /\ ret' = AppError(503, "SERVICE_UNAVAILABLE")
            /\ pc' = "done"
            /\ call' = call
       ELSE IF call.retrieval = "raised"
       THEN /\ ret' = Unhandled("search_chunks")
            /\ pc' = "done"
            /\ call' = call
       ELSE /\ ret' = Returned
            /\ pc' = "event_generator"
            /\ call' = [call EXCEPT !.retrieved = TRUE]

\* line 132
event_generator_sources ==
    /\ pc = "event_generator"
    /\ UNCHANGED <<store, sess, pre, in_transaction, ret>>
    /\ call' = [call EXCEPT !.events = Append(@, SseEvent("sources", call.retrieval))]
    /\ pc' = "stream_chat_completion"

\* lines 133-134 with llm_client.py:122-137: one line of the answer
event_generator_line(line) ==
    /\ pc = "stream_chat_completion"
    /\ call.lines < MaxLines
    /\ UNCHANGED <<store, sess, pre, in_transaction, ret>>
    /\ IF line.kind = "[DONE]"
       THEN /\ pc' = "event_generator_done"
            /\ call' = [call EXCEPT !.lines = @ + 1]
       ELSE IF line.kind = "delta"
       THEN /\ pc' = pc
            /\ call' = [call EXCEPT !.lines = @ + 1,
                                    !.produced = Append(@, line.content),
                                    !.events = Append(@, SseEvent("delta", line.content))]
       ELSE /\ pc' = pc
            /\ call' = [call EXCEPT !.lines = @ + 1]

\* the answer ends without [DONE]: aiter_lines is exhausted
event_generator_end_of_lines ==
    /\ pc = "stream_chat_completion"
    /\ UNCHANGED <<store, sess, pre, in_transaction, ret, call>>
    /\ pc' = "event_generator_done"

\* llm_client.py:95-121 and httpx: the settings are missing, the model
\* service answers >= 400, or the connection breaks; the exception leaves
\* event_generator
event_generator_raise(cause) ==
    /\ pc = "stream_chat_completion"
    /\ cause = "UPSTREAM_LLM_ERROR" => call.lines = 0
    /\ UNCHANGED <<store, sess, pre, in_transaction, call>>
    /\ ret' = Unhandled(cause)
    /\ pc' = "done"

\* line 135
event_generator_done ==
    /\ pc = "event_generator_done"
    /\ UNCHANGED <<store, sess, pre, in_transaction, ret>>
    /\ call' = [call EXCEPT !.events = Append(@, SseEvent("done", None))]
    /\ pc' = "done"

NextStream ==
    \/ stream_chat
    \/ event_generator_sources
    \/ \E line \in ModelLines : event_generator_line(line)
    \/ event_generator_end_of_lines
    \/ \E cause \in {"UPSTREAM_LLM_ERROR", "httpx.ReadError"} : event_generator_raise(cause)
    \/ event_generator_done

SpecStream == InitStream /\ [][NextStream]_vars

\* A call of delete_document on document 2 in worker w, on its own session,
\* next to the calls of persist_embeddings.  document.py:239-255 in one step:
\* the UPDATE of the document and the DELETE of its chunk rows wait for the
\* rows another open transaction has written, and are committed at once.
concurrent_delete_document(w) ==
    /\ pc[w] = "idle"
    /\ \A o \in Workers \ {w} :
          /\ ~sess[o].doc_locked
          /\ sess[o].targets = {}
    /\ call' = [call EXCEPT ![w] = [NoCall EXCEPT !.op = "delete_document", !.id = 2]]
    /\ pc' = [pc EXCEPT ![w] = "done"]
    /\ sess' = [sess EXCEPT ![w] = NoSession]
    /\ in_transaction' = [in_transaction EXCEPT ![w] = FALSE]
    /\ IF ~GetDocument(store, 2).exists
       THEN /\ ret' = [ret EXCEPT ![w] = AppError(404, "DOCUMENT_NOT_FOUND")]
            /\ UNCHANGED store
       ELSE IF GetDocument(store, 2).status = DELETED
       THEN /\ ret' = [ret EXCEPT ![w] = AppError(410, "DOCUMENT_DELETED")]
            /\ UNCHANGED store
       ELSE /\ store' = DeleteChunksOf([store EXCEPT !.documents[2].status = DELETED], 2)
            /\ ret' = [ret EXCEPT ![w] = Returned]
    /\ UNCHANGED pre

NextConcurrentDelete ==
    \/ \E w \in Workers, n \in 0..MaxChunks : concurrent_persist_begin(w, n)
    \/ \E w \in Workers, m \in EmbedMessages :
          concurrent_persist_embed(w, [raised |-> TRUE, message |-> m, vectors |-> <<>>])
    \/ \E w \in Workers : concurrent_persist_embed(w, GoodEmbedding(call[w].n))
    \/ \E w \in Workers : concurrent_persist_delete(w)
    \/ \E w \in Workers : concurrent_persist_write(w)
    \/ \E w \in Workers : concurrent_persist_except(w)
    \/ \E w \in Workers : concurrent_delete_document(w)
    \/ \E w \in Workers, commit \in BOOLEAN : concurrent_persist_close(w, commit)

SpecConcurrentDelete == InitConcurrentIngest /\ [][NextConcurrentDelete]_vars


\* Requests on knowledge base 1 from two sessions at READ COMMITTED:
\* delete_knowledge_base, run_cleanup_task on task 1 and create_document, each
\* between its reads and its commit.  store.task is the row of cleanup_tasks
\* with id 1, store.later_tasks the rows inserted after it.
InitConcurrentKb ==
    /\ \E k \in 0..MaxDocs :
          \E counts \in [2..(k + 1) -> 0..MaxChunks] :
             store = [kbs |-> (1 :> KB_ENABLED) @@ (2 :> KB_ENABLED),
                      documents |-> ScenarioStore(k, counts).documents,
                      chunks |-> ScenarioStore(k, counts).chunks,
                      task |-> NoTask,
                      later_tasks |-> <<>>,
                      next_document_id |-> k + 2]
    /\ sess = [w \in Workers |-> LoadTask(store)]
    /\ in_transaction = [w \in Workers |-> FALSE]
    /\ pc = [w \in Workers |-> "idle"]
    /\ call = [w \in Workers |-> NoCall]
    /\ ret = [w \in Workers |-> NoRet]
    /\ pre = store

\* knowledge_base.py:200-213 in worker w
concurrent_delete_knowledge_base_check(w, kb_id) ==
    /\ pc[w] = "idle"
    /\ call' = [call EXCEPT ![w] = [NoCall EXCEPT !.op = "delete_knowledge_base",
                                                  !.id = kb_id]]
    /\ in_transaction' = [in_transaction EXCEPT ![w] = TRUE]
    /\ IF GetKb(store, kb_id) = None
       THEN /\ ret' = [ret EXCEPT ![w] = AppError(404, "KNOWLEDGE_BASE_NOT_FOUND")]
            /\ pc' = [pc EXCEPT ![w] = "done"]
       ELSE IF GetKb(store, kb_id) = KB_DELETED
       THEN /\ ret' = [ret EXCEPT ![w] = AppError(409, "KNOWLEDGE_BASE_DELETED")]
            /\ pc' = [pc EXCEPT ![w] = "done"]
       ELSE /\ ret' = [ret EXCEPT ![w] = NoRet]
            /\ pc' = [pc EXCEPT ![w] = "kb_delete_commit"]
    /\ UNCHANGED <<store, sess, pre>>

\* knowledge_base.py:214-223 in worker w: the UPDATE of the status the
\* session loaded as not DELETED, the INSERT of a task row, the commit
concurrent_delete_knowledge_base_commit(w) ==
    /\ pc[w] = "kb_delete_commit"
    /\ LET kb_id == call[w].id
           new_task == CleanupTask(kb_id, PENDING, Progress(0, Null, None))
       IN store' = IF store.task.exists
                   THEN [store EXCEPT !.kbs[kb_id] = KB_DELETED,
                                      !.later_tasks = Append(@, new_task)]
                   ELSE [store EXCEPT !.kbs[kb_id] = KB_DELETED,
                                      !.task = new_task]
    /\ sess' = [sess EXCEPT ![w] = LoadTask(store')]
    /\ pc' = [pc EXCEPT ![w] = "done"]
    /\ ret' = [ret EXCEPT ![w] = Returned]
    /\ UNCHANGED <<in_transaction, call, pre>>

\* document.py:156-157 in worker w
concurrent_create_document_check(w, kb_id) ==
    /\ pc[w] = "idle"
    /\ call' = [call EXCEPT ![w] = [NoCall EXCEPT !.op = "create_document", !.id = kb_id]]
    /\ in_transaction' = [in_transaction EXCEPT ![w] = TRUE]
    /\ IF GetKb(store, kb_id) = None
       THEN /\ ret' = [ret EXCEPT ![w] = AppError(404, "KNOWLEDGE_BASE_NOT_FOUND")]
            /\ pc' = [pc EXCEPT ![w] = "done"]
       ELSE IF GetKb(store, kb_id) \in {KB_DISABLED, KB_DELETED}
       THEN /\ ret' = [ret EXCEPT ![w] = AppError(403, "KNOWLEDGE_BASE_UNAVAILABLE")]
            /\ pc' = [pc EXCEPT ![w] = "done"]
       ELSE /\ ret' = [ret EXCEPT ![w] = NoRet]
            /\ pc' = [pc EXCEPT ![w] = "create_commit"]
    /\ UNCHANGED <<store, sess, pre>>

\* document.py:159-168 in worker w: the INSERT refers to the row of the
\* knowledge base, which is there whatever its status has become
concurrent_create_document_commit(w) ==
    /\ pc[w] = "create_commit"
    /\ store.next_document_id <= ScenarioDocs + 1
    /\ store' = [store EXCEPT
                    !.documents[store.next_document_id] =
                        Document(call[w].id, PROCESSING, 0),
                    !.next_document_id = @ + 1]
    /\ ret' = [ret EXCEPT ![w] = Returned]
    /\ sess' = [sess EXCEPT ![w] = LoadTask(store')]
    /\ pc' = [pc EXCEPT ![w] = "done"]
    /\ UNCHANGED <<in_transaction, call, pre>>

NextConcurrentKb ==
    \/ \E w \in Workers, kb_id \in KbInputs : concurrent_delete_knowledge_base_check(w, kb_id)
    \/ \E w \in Workers : concurrent_delete_knowledge_base_commit(w)
    \/ \E w \in Workers, kb_id \in KbInputs : concurrent_create_document_check(w, kb_id)
    \/ \E w \in Workers : concurrent_create_document_commit(w)
    \/ \E w \in Workers : store.task.exists /\ concurrent_cleanup_begin(w)
    \/ \E w \in Workers : concurrent_cleanup_count(w)
    \/ \E w \in Workers, fault \in BOOLEAN : concurrent_cleanup_commit(w, fault)
    \/ \E w \in Workers, fault \in {"none", "chunks", "documents", "commit"} :
          concurrent_cleanup_delete(w, fault)
    \/ \E w \in Workers : concurrent_cleanup_except(w)
    \/ \E w \in Workers : concurrent_cleanup_close(w)

SpecConcurrentKb == InitConcurrentKb /\ [][NextConcurrentKb]_vars

\* ================================================================ claims
\* the rows of the attempt's chunk list, as the request names them
CallChunks ==
    {DocumentChunk(pre.documents[call.id].knowledge_base_id, call.id, i, call.text) :
        i \in ChunkIndexes(call.n)}

PersistEnded == pc = "done" /\ call.op = "persist_embeddings"

PersistFailed == PersistEnded /\ ret.code = "INTERNAL_ERROR"

PersistReturned == PersistEnded /\ ret.kind = "returned"

\* the embed result has a wrong count or a vector of a wrong dimension
EmbedMismatch ==
    /\ call.op = "persist_embeddings"
    /\ call.embedded
    /\ call.cause # "Exception"
    /\ \/ Len(call.vectors) # call.n
       \/ \E i \in 1..Len(call.vectors) : call.vectors[i] # embedding_dim

\* C1: when persist_embeddings fails at any step, the committed chunk rows
\* and every document's chunk_count are what they were before the attempt;
\* of all committed rows only the document's status and error_message change.
C1_FailureKeepsChunks ==
    PersistFailed =>
        /\ store.chunks = pre.chunks
        /\ store.kbs = pre.kbs
        /\ store.task = pre.task
        /\ \A d \in DOMAIN store.documents :
              /\ store.documents[d].chunk_count = pre.documents[d].chunk_count
              /\ store.documents[d].exists = pre.documents[d].exists
              /\ store.documents[d].knowledge_base_id = pre.documents[d].knowledge_base_id
              /\ d # call.id => store.documents[d] = pre.documents[d]

C1_Witness ==
    /\ PersistFailed
    /\ call.cause = "DBAPIError"
    /\ ChunksOf(pre, call.id) # {}
    /\ call.n > 0

\* C2 as stated: after any failed attempt the document is FAILED with a
\* non-empty error_message, zero chunk rows and chunk_count 0.
C2_FailureLeavesZeroChunks ==
    PersistFailed =>
        /\ store.documents[call.id].status = FAILED
        /\ store.documents[call.id].error_message \notin {None, ""}
        /\ ChunksOf(store, call.id) = {}
        /\ store.documents[call.id].chunk_count = 0

\* C2 amended: after any failed attempt the document is FAILED, its
\* error_message is the message of the exception (non-empty for a count or
\* dimension mismatch and for a store failure), and it holds the chunk rows and
\* the chunk_count it held before the attempt.
C2_FailureKeepsPriorSet ==
    PersistFailed =>
        /\ store.documents[call.id].status = FAILED
        /\ store.documents[call.id].error_message = call.exc
        /\ call.cause \in {"ValueError", "DBAPIError"} =>
              store.documents[call.id].error_message \notin {None, ""}
        /\ ChunksOf(store, call.id) = ChunksOf(pre, call.id)
        /\ store.documents[call.id].chunk_count = pre.documents[call.id].chunk_count

C2_Witness ==
    /\ PersistFailed
    /\ call.n = 2
    /\ Len(call.vectors) = 2
    /\ call.vectors[1] = embedding_dim
    /\ call.vectors[2] # embedding_dim
    /\ Cardinality(ChunksOf(store, call.id)) = 1
    /\ store.documents[call.id].chunk_count = 1

\* C3: when persist_embeddings returns, the document's chunk rows are, in the
\* session that ran it, exactly the n chunks of the input, chunk_count is n,
\* status is COMPLETED and error_message is empty, whatever the prior status
\* and prior chunk set (n = 0 included); no other document's rows change.
C3_SuccessReplacesChunkSet ==
    PersistReturned =>
        /\ ChunksOf(sess, call.id) = CallChunks
        /\ Cardinality(ChunksOf(sess, call.id)) = call.n
        /\ sess.documents[call.id].chunk_count = call.n
        /\ sess.documents[call.id].status = COMPLETED
        /\ sess.documents[call.id].error_message = None
        /\ \A d \in DOMAIN sess.documents :
              d # call.id => /\ sess.documents[d] = pre.documents[d]
                             /\ ChunksOf(sess, d) = ChunksOf(pre, d)

C3_Witness ==
    /\ PersistReturned
    /\ pre.documents[call.id].status = FAILED
    /\ Cardinality(ChunksOf(pre, call.id)) = 2
    /\ call.n = 0

C3_WitnessReplace ==
    /\ PersistReturned
    /\ pre.documents[call.id].status = COMPLETED
    /\ ChunksOf(pre, call.id) # {}
    /\ call.n > 0
    /\ ChunksOf(pre, call.id) \cap CallChunks = {}

\* C4 as stated: when persist_embeddings has returned, the replacement is
\* committed without any commit of the caller: once the request's session is
\* closed the store holds status COMPLETED, chunk_count n and the n new rows.
C4_SuccessIsCommitted ==
    [][(PersistReturned /\ pc' = "idle") =>
          /\ store'.documents[call.id].status = COMPLETED
          /\ store'.documents[call.id].chunk_count = call.n
          /\ ChunksOf(store', call.id) = CallChunks]_vars

\* C5 as stated: every persist_embeddings call on an existing document that is
\* not DELETED ends with a committed terminal status: COMPLETED when it
\* returns, FAILED with the exception's message when it raises, never
\* PROCESSING.
C5_TerminalStatusCommitted ==
    (PersistEnded /\ pre.documents[call.id].exists
                  /\ pre.documents[call.id].status # DELETED) =>
        /\ ret.kind = "returned" => store.documents[call.id].status = COMPLETED
        /\ ret.kind = "raised" =>
              /\ store.documents[call.id].status = FAILED
              /\ store.documents[call.id].error_message = call.exc
        /\ store.documents[call.id].status # PROCESSING

CleanupEnded == pc = "done" /\ call.op = "run_cleanup_task"

\* an execution: run_cleanup_task on a task that was PENDING or FAILED
ExecutionEnded ==
    /\ CleanupEnded
    /\ GetTask(pre, call.id).exists
    /\ GetTask(pre, call.id).status \in {PENDING, FAILED}

LegalOriginal ==
    {<<PENDING, RUNNING>>, <<RUNNING, COMPLETED>>, <<RUNNING, FAILED>>,
     <<FAILED, PENDING>>}

LegalAmended ==
    LegalOriginal \cup {<<FAILED, RUNNING>>, <<PENDING, FAILED>>}

\* C7 as stated: every change of the task's committed status is one of
\* PENDING->RUNNING, RUNNING->COMPLETED, RUNNING->FAILED or FAILED->PENDING,
\* and FAILED->PENDING happens only through retry.
C7_OnlyListedTransitions ==
    [][(store.task.exists /\ store'.task.status # store.task.status) =>
          /\ <<store.task.status, store'.task.status>> \in LegalOriginal
          /\ store'.task.status = PENDING => call'.op = "retry_cleanup_task"]_vars

\* C7 amended: every change of the task's committed status is one of
\* PENDING->RUNNING, FAILED->RUNNING (execute takes a FAILED task without a
\* retry), RUNNING->COMPLETED, RUNNING->FAILED, PENDING->FAILED (the commit of
\* RUNNING itself fails) or FAILED->PENDING; FAILED->PENDING happens only
\* through retry, and a COMPLETED task never changes status.
C7_LegalTransitions ==
    [][(store.task.exists /\ store'.task.status # store.task.status) =>
          /\ <<store.task.status, store'.task.status>> \in LegalAmended
          /\ store'.task.status = PENDING => call'.op = "retry_cleanup_task"
          /\ store'.task.status = RUNNING => call'.op = "run_cleanup_task"]_vars

\* a retried task that failed again, then execute took it FAILED -> RUNNING
C7_Witness ==
    /\ call.op = "run_cleanup_task"
    /\ pc = "cleanup_delete"
    /\ pre.task.status = FAILED
    /\ store.task.status = RUNNING

C7_WitnessRetry ==
    /\ call.op = "retry_cleanup_task"
    /\ pc = "done"
    /\ pre.task.status = FAILED
    /\ store.task.status = PENDING

\* C8 as stated: for a task PENDING or FAILED run_cleanup_task never raises,
\* whichever store operation fails (a count query included): it returns the
\* task committed FAILED with the exception's message, or else COMPLETED.
C8_ExecutionNeverRaises ==
    ExecutionEnded =>
        /\ ret.kind = "returned"
        /\ \/ /\ store.task.status = FAILED
              /\ store.task.error_message = call.exc
              /\ call.cause # None
           \/ /\ store.task.status = COMPLETED
              /\ call.cause = None

\* C9: an execution that ends FAILED leaves the committed document and chunk
\* rows exactly as they were before it; one that ends COMPLETED leaves the
\* knowledge base without document row and chunk row, and the rows of other
\* knowledge bases as they were.
C9_FailedKeepsRowsCompletedRemovesAll ==
    (ExecutionEnded /\ ret.kind = "returned") =>
        /\ store.task.status = FAILED =>
              /\ store.documents = pre.documents
              /\ store.chunks = pre.chunks
        /\ store.task.status = COMPLETED =>
              /\ CountDocuments(store, pre.task.knowledge_base_id) = 0
              /\ CountChunks(store, pre.task.knowledge_base_id) = 0
              /\ \A d \in DOMAIN store.documents :
                    pre.documents[d].knowledge_base_id # pre.task.knowledge_base_id
                        => store.documents[d] = pre.documents[d]
              /\ {c \in store.chunks : c.knowledge_base_id # pre.task.knowledge_base_id}
                    = {c \in pre.chunks : c.knowledge_base_id # pre.task.knowledge_base_id}
        /\ store.task.status \in {FAILED, COMPLETED}

\* the deletes had begun (RUNNING was committed) when the execution failed
C9_Witness ==
    /\ ExecutionEnded
    /\ store.task.status = FAILED
    /\ store.task.progress.total = 3
    /\ CountChunks(store, store.task.knowledge_base_id) = 2

C9_WitnessCompleted ==
    /\ ExecutionEnded
    /\ store.task.status = COMPLETED
    /\ CountChunks(pre, pre.task.knowledge_base_id) = 2

\* C10: run_cleanup_task on a COMPLETED task returns that task and changes
\* nothing: status, progress and error_message stay and no row is deleted.
C10_CompletedIsNoOp ==
    (CleanupEnded /\ GetTask(pre, call.id).exists
                  /\ GetTask(pre, call.id).status = COMPLETED) =>
        /\ ret = Returned
        /\ sess.task = pre.task
        /\ store = pre

C10_Witness ==
    /\ CleanupEnded
    /\ GetTask(pre, call.id).status = COMPLETED
    /\ GetTask(pre, call.id).progress.total = 3

\* C11: run_cleanup_task on a task that is RUNNING fails with the 409 error
\* CLEANUP_TASK_NOT_RETRYABLE and leaves the task and every document and chunk
\* row unchanged, committed and pending; an execution (the steps after the
\* status check) runs only for a task that was PENDING or FAILED.
C11_RunningIsRejected ==
    /\ (CleanupEnded /\ GetTask(pre, call.id).exists
                      /\ GetTask(pre, call.id).status = RUNNING) =>
           /\ ret = AppError(409, "CLEANUP_TASK_NOT_RETRYABLE")
           /\ store = pre
           /\ sess = pre
    /\ pc \in {"cleanup_count", "cleanup_commit", "cleanup_delete", "cleanup_except"} =>
           /\ GetTask(pre, call.id).exists
           /\ GetTask(pre, call.id).status \in {PENDING, FAILED}

\* an execution had stopped with RUNNING committed; execute is called on it
C11_Witness ==
    /\ CleanupEnded
    /\ GetTask(pre, call.id).status = RUNNING
    /\ CountDocuments(pre, pre.task.knowledge_base_id) > 0
    /\ ret.status_code = 409

RetryEnded == pc = "done" /\ call.op = "retry_cleanup_task"

\* C12: retry_cleanup_task on a PENDING, RUNNING or COMPLETED task fails with
\* the 409 error CLEANUP_TASK_NOT_RETRYABLE and changes nothing; on a FAILED
\* task it commits PENDING with error_message cleared and progress reset to
\* (0, empty, empty), and no document or chunk row is deleted.
C12_RetryOnlyFromFailed ==
    (RetryEnded /\ GetTask(pre, call.id).exists) =>
        /\ GetTask(pre, call.id).status \in {PENDING, RUNNING, COMPLETED} =>
              /\ ret = AppError(409, "CLEANUP_TASK_NOT_RETRYABLE")
              /\ store = pre
              /\ sess = pre
        /\ GetTask(pre, call.id).status = FAILED =>
              /\ ret = Returned
              /\ store.task = [pre.task EXCEPT !.status = PENDING,
                                               !.error_message = None,
                                               !.progress = Progress(0, Null, None)]
              /\ store.documents = pre.documents
              /\ store.chunks = pre.chunks
              /\ store.kbs = pre.kbs

\* a task that failed after its deletes had begun is retried
C12_Witness ==
    /\ RetryEnded
    /\ pre.task.status = FAILED
    /\ pre.task.error_message = MsgStore
    /\ pre.task.progress.total = 3
    /\ CountChunks(store, store.task.knowledge_base_id) = 2

C12_WitnessRunning ==
    /\ RetryEnded
    /\ pre.task.status = RUNNING
    /\ ret.status_code = 409

\* C13 as stated: a task whose execution stopped after RUNNING was committed
\* and before COMPLETED or FAILED was committed is brought to COMPLETED by the
\* execute and retry calls that follow.
C13_InterruptedTaskCompletes ==
    (pc = "idle" /\ store.task.exists /\ store.task.status = RUNNING)
        ~> (store.task.status = COMPLETED)

\* C14 as stated: under every interleaving of two run_cleanup_task calls on
\* the same task, a call whose status check finds the task RUNNING is rejected
\* with the 409 error, and once COMPLETED is committed no later commit changes
\* the task's status or progress.
C14_CompletedStaysUnderRace ==
    [][/\ \A w \in Workers :
             (pc[w] = "idle" /\ pc'[w] # "idle" /\ store.task.status = RUNNING) =>
                 ret'[w] = AppError(409, "CLEANUP_TASK_NOT_RETRYABLE")
       /\ store.task.status = COMPLETED =>
             /\ store'.task.status = COMPLETED
             /\ store'.task.progress = store.task.progress]_vars

\* C15: when run_cleanup_task ends COMPLETED the task's progress is
\* processed = total = chunk rows + document rows of the knowledge base as
\* counted at the start of the execution, percentage 1.0, also when that total
\* is 0; with 3 documents and 10 chunks it is (13, 13, 1.0).
C15_CompletedProgress ==
    (ExecutionEnded /\ ret.kind = "returned" /\ store.task.status = COMPLETED) =>
        LET kb_id == pre.task.knowledge_base_id
            total == CountChunks(pre, kb_id) + CountDocuments(pre, kb_id)
        IN /\ total = call.chunk_count + call.doc_count
           /\ store.task.progress = Progress(total, total, "1.0")
           /\ (CountDocuments(pre, kb_id) = 3 /\ CountChunks(pre, kb_id) = 10) =>
                 store.task.progress = Progress(13, 13, "1.0")

\* Scenario D: 3 documents, 10 chunks
C15_Witness ==
    /\ ExecutionEnded
    /\ store.task.status = COMPLETED
    /\ CountDocuments(pre, pre.task.knowledge_base_id) = 3
    /\ CountChunks(pre, pre.task.knowledge_base_id) = 10

C15_WitnessEmpty ==
    /\ ExecutionEnded
    /\ store.task.status = COMPLETED
    /\ CountDocuments(pre, pre.task.knowledge_base_id) = 0
    /\ CountChunks(pre, pre.task.knowledge_base_id) = 0

\* C16 as stated: in every reachable state each document's committed
\* chunk_count equals the number of committed chunk rows that belong to it.
C16_ChunkCountMatchesRows ==
    \A d \in DOMAIN store.documents :
        store.documents[d].exists =>
            store.documents[d].chunk_count = Cardinality(ChunksOf(store, d))

\* C17 as stated: in every reachable state a document whose error_message is
\* set has status FAILED; a PROCESSING, COMPLETED or DELETED document carries
\* no error_message.
C17_ErrorMessageOnlyWhenFailed ==
    \A d \in DOMAIN store.documents :
        (store.documents[d].exists /\ store.documents[d].error_message # None) =>
            store.documents[d].status = FAILED

\* C18: once a document's status is DELETED it never changes under any
\* sequence of delete_document and persist_embeddings calls: delete_document
\* fails with the 410 error DOCUMENT_DELETED, persist_embeddings fails with
\* the 410 error DOCUMENT_DELETED before embed_fn is called, and neither
\* changes the document or creates a chunk row, committed or pending.
C18_DeletedIsTerminal ==
    [][/\ \A d \in DOMAIN store.documents :
             store.documents[d].status = DELETED =>
                 /\ store'.documents[d] = store.documents[d]
                 /\ sess'.documents[d] = store.documents[d]
                 /\ ChunksOf(store', d) = ChunksOf(store, d)
                 /\ ChunksOf(sess', d) = ChunksOf(store, d)
       /\ (pc = "idle" /\ call'.op \in {"delete_document", "persist_embeddings"}
                       /\ GetDocument(store, call'.id).status = DELETED) =>
             /\ pc' = "done"
             /\ ret' = AppError(410, "DOCUMENT_DELETED")
             /\ ~call'.embedded
             /\ store' = store
             /\ sess' = store]_vars

\* an ingested document was deleted; a further ingestion attempt is refused
C18_Witness ==
    /\ PersistEnded
    /\ pre.documents[call.id].status = DELETED
    /\ pre.documents[call.id].chunk_count = 2
    /\ ret = AppError(410, "DOCUMENT_DELETED")

C18_WitnessDelete ==
    /\ pc = "done"
    /\ call.op = "delete_document"
    /\ pre.documents[call.id].status = DELETED
    /\ ret = AppError(410, "DOCUMENT_DELETED")

AttemptSets ==
    {ChunksOf(pre, 2)} \cup
    {AttemptChunks(w, call[w].n) : w \in {o \in Workers : call[o].op = "persist_embeddings"}}

\* C19 as stated: under every interleaving of two persist_embeddings calls on
\* the same document, the document's committed chunk rows are exactly the
\* chunk set of one attempt (or the set held before the two calls), never a
\* mixture of rows of both, and chunk_count equals the size of that set.
C19_NoMixedChunkSet ==
    /\ ChunksOf(store, 2) \in AttemptSets
    /\ store.documents[2].chunk_count = Cardinality(ChunksOf(store, 2))

\* C21 as stated: a knowledge base enters status DELETED only from ENABLED;
\* no step of update_knowledge_base or delete_knowledge_base moves a DISABLED
\* knowledge base to DELETED.
C21_DeletedOnlyFromEnabled ==
    [][\A k \in DOMAIN store.kbs :
          (store'.kbs[k] = KB_DELETED /\ store.kbs[k] # KB_DELETED) =>
              store.kbs[k] = KB_ENABLED]_vars

KbCallStarts(ops) == pc = "idle" /\ call'.op \in ops

\* C22: once a knowledge base is DELETED no operation mutates it:
\* update_knowledge_base and delete_knowledge_base fail with the 409 error
\* KNOWLEDGE_BASE_DELETED, its name, description and status stay as they were,
\* committed and in the session, and no further CleanupTask is created.
C22_DeletedKbIsTerminal ==
    [][/\ \A k \in DOMAIN store.kbs :
             store.kbs[k] = KB_DELETED =>
                 /\ store'.kbs[k] = KB_DELETED
                 /\ sess'.kbs[k] = KB_DELETED
                 /\ store'.kb_name[k] = store.kb_name[k]
                 /\ sess'.kb_name[k] = store.kb_name[k]
                 /\ store'.kb_description[k] = store.kb_description[k]
                 /\ sess'.kb_description[k] = store.kb_description[k]
       /\ (KbCallStarts({"update_knowledge_base", "delete_knowledge_base"})
              /\ GetKb(store, call'.id) = KB_DELETED) =>
             /\ ret' = AppError(409, "KNOWLEDGE_BASE_DELETED")
             /\ store' = store
             /\ sess' = store]_vars

\* a renamed knowledge base was deleted; an update of it is refused
C22_Witness ==
    /\ pc = "done"
    /\ call.op = "update_knowledge_base"
    /\ GetKb(pre, call.id) = KB_DELETED
    /\ pre.kb_name[call.id] = "n3"
    /\ pre.task.status = PENDING
    /\ ret = AppError(409, "KNOWLEDGE_BASE_DELETED")

\* C23: create_document succeeds only for a knowledge base that exists and is
\* ENABLED and then creates one document with status PROCESSING and
\* chunk_count 0; for a DISABLED or DELETED knowledge base it fails with the
\* 403 error KNOWLEDGE_BASE_UNAVAILABLE, for a missing one with the 404 error
\* KNOWLEDGE_BASE_NOT_FOUND, and creates no document.
C23_CreateOnlyWhenEnabled ==
    [][/\ KbCallStarts({"create_document"}) =>
             /\ GetKb(store, call'.id) = None =>
                   /\ ret' = AppError(404, "KNOWLEDGE_BASE_NOT_FOUND")
                   /\ store' = store
             /\ GetKb(store, call'.id) \in {KB_DISABLED, KB_DELETED} =>
                   /\ ret' = AppError(403, "KNOWLEDGE_BASE_UNAVAILABLE")
                   /\ store' = store
             /\ GetKb(store, call'.id) = KB_ENABLED =>
                   /\ ret' = Returned
                   /\ store' = [store EXCEPT
                                  !.documents[store.next_document_id] =
                                      Document(call'.id, PROCESSING, 0),
                                  !.next_document_id = @ + 1]
             /\ ret'.kind = "returned" => GetKb(store, call'.id) = KB_ENABLED
       /\ store'.documents # store.documents =>
             /\ call'.op = "create_document"
             /\ GetKb(store, call'.id) = KB_ENABLED]_vars

\* an upload to a DISABLED knowledge base is refused
C23_Witness ==
    /\ pc = "done"
    /\ call.op = "create_document"
    /\ GetKb(pre, call.id) = KB_DISABLED
    /\ ret = AppError(403, "KNOWLEDGE_BASE_UNAVAILABLE")
    /\ store.documents = pre.documents

C23_WitnessCreated ==
    /\ pc = "done"
    /\ call.op = "create_document"
    /\ ret = Returned
    /\ store.documents[2] = Document(1, PROCESSING, 0)
    /\ ~pre.documents[2].exists

SearchEnded == pc = "done" /\ call.op = "search_chunks"

\* C24: in every reachable state the knowledge-base search fails NOT_FOUND
\* for a missing knowledge base and UNAVAILABLE for a DISABLED or DELETED one
\* (also while its rows are still in the store), and what it returns are
\* chunks of the ENABLED knowledge base whose document is COMPLETED: no chunk
\* of a PROCESSING, FAILED or DELETED document.
C24_SearchOnlyCompletedEnabled ==
    SearchEnded =>
        /\ GetKb(store, call.id) = None => ret = AppError(404, "KNOWLEDGE_BASE_NOT_FOUND")
        /\ GetKb(store, call.id) \in {KB_DISABLED, KB_DELETED} =>
              ret = AppError(403, "KNOWLEDGE_BASE_UNAVAILABLE")
        /\ ret.kind = "returned" =>
              /\ GetKb(store, call.id) = KB_ENABLED
              /\ \A c \in ret.results :
                    /\ c \in store.chunks
                    /\ c.knowledge_base_id = call.id
                    /\ GetDocument(store, c.document_id).knowledge_base_id = call.id
                    /\ GetDocument(store, c.document_id).status = COMPLETED

\* the only document of the knowledge base is FAILED and still has the chunk
\* rows of its earlier ingestion: the search returns none of them
C24_Witness ==
    /\ SearchEnded
    /\ ret.kind = "returned"
    /\ ret.results = {}
    /\ GetDocument(store, 2).status = FAILED
    /\ Cardinality(ChunksOf(store, 2)) = 2

\* a deleted knowledge base whose rows the cleanup has not removed
C24_WitnessDeletedKb ==
    /\ SearchEnded
    /\ GetKb(store, call.id) = KB_DELETED
    /\ CountChunks(store, call.id) = 2
    /\ ret.status_code = 403

C24_WitnessResults ==
    /\ SearchEnded
    /\ ret.kind = "returned"
    /\ Cardinality(ret.results) = 2

ChunkerDone == pc = "done" /\ call.op = "split_text_into_chunks"

ValidWindow ==
    /\ call.chunk_size > 0
    /\ 0 <= call.overlap
    /\ call.overlap < call.chunk_size

TokenCount == Len(_simple_tokenize(call.text))

\* C25: for a text of n >= 1 tokens and a valid chunk_size and overlap the
\* chunks returned form one sliding window: the first starts at 0, the last
\* ends at n, every chunk but the last spans chunk_size tokens, each next
\* chunk starts overlap tokens before the end of the previous one, every
\* token position is in some chunk, chunk_index counts 0, 1, 2, ..., and each
\* chunk's text is its tokens joined; "a b c d e" with chunk_size 3 and
\* overlap 1 gives "a b c" and "c d e".
C25_SlidingWindow ==
    (ChunkerDone /\ ValidWindow /\ TokenCount >= 1) =>
        /\ ret.kind = "returned"
        /\ LET chunks == ret.chunks
               k == Len(chunks)
               tokens == _simple_tokenize(call.text)
           IN /\ k >= 1
              /\ chunks[1].token_start = 0
              /\ chunks[k].token_end = TokenCount
              /\ \A i \in 1..k :
                    /\ chunks[i].chunk_index = i - 1
                    /\ chunks[i].token_start < chunks[i].token_end
                    /\ chunks[i].text =
                          _simple_detokenize(SubSeq(tokens, chunks[i].token_start + 1,
                                                   chunks[i].token_end))
              /\ \A i \in 1..(k - 1) :
                    /\ chunks[i].token_end - chunks[i].token_start = call.chunk_size
                    /\ chunks[i + 1].token_start = chunks[i].token_end - call.overlap
              /\ \A p \in 0..(TokenCount - 1) :
                    \E i \in 1..k :
                        chunks[i].token_start <= p /\ p < chunks[i].token_end
              /\ (call.text = ScenarioAText /\ call.chunk_size = 3 /\ call.overlap = 1) =>
                    chunks = <<Chunk(0, <<"a", " ", "b", " ", "c">>, 0, 3),
                               Chunk(1, <<"c", " ", "d", " ", "e">>, 2, 5)>>

\* Scenario A has been chunked
C25_Witness ==
    /\ ChunkerDone
    /\ call.text = ScenarioAText
    /\ call.chunk_size = 3
    /\ call.overlap = 1
    /\ ret.kind = "returned"
    /\ Len(ret.chunks) = 2

\* C26: whenever chunk_size <= 0 or overlap < 0 or overlap >= chunk_size the
\* call ends in a ValueError and no chunk; the values are used as passed, and
\* the text has not been tokenized, so this is so for a text without tokens too.
C26_InvalidWindowRaises ==
    (ChunkerDone /\ ~ValidWindow) =>
        /\ ret = Unhandled("ValueError")
        /\ call.chunks = <<>>
        /\ call.tokens = <<>>

\* an empty text with an overlap as large as the chunk size
C26_Witness ==
    /\ ChunkerDone
    /\ call.text = <<>>
    /\ call.chunk_size = 2
    /\ call.overlap = 2
    /\ ret = Unhandled("ValueError")

C26_WitnessWhitespace ==
    /\ ChunkerDone
    /\ call.text = <<" ", " ">>
    /\ call.chunk_size = 0
    /\ ret = Unhandled("ValueError")

\* 1 + ceil((n - chunk_size) / (chunk_size - overlap)) for n > chunk_size
ExpectedChunks(n, chunk_size, overlap) ==
    IF n = 0 THEN 0
    ELSE IF n <= chunk_size THEN 1
    ELSE 1 + ((n - chunk_size) + (chunk_size - overlap) - 1) \div (chunk_size - overlap)

\* C27: for a valid chunk_size and overlap the call ends, and it returns no
\* chunk for a text without tokens, one chunk for n <= chunk_size tokens and
\* 1 + ceil((n - chunk_size) / (chunk_size - overlap)) chunks otherwise.
C27_TerminatesWithCount ==
    /\ [](ChunkerDone /\ ValidWindow =>
             /\ ret.kind = "returned"
             /\ Len(ret.chunks) = ExpectedChunks(TokenCount, call.chunk_size, call.overlap))
    /\ <>(pc = "done")

\* four tokens in windows of two that share one: three chunks
C27_Witness ==
    /\ ChunkerDone
    /\ TokenCount = 4
    /\ call.chunk_size = 2
    /\ call.overlap = 1
    /\ Len(ret.chunks) = 3

C27_WitnessNoToken ==
    /\ ChunkerDone
    /\ ValidWindow
    /\ call.text = <<" ", " ", " ">>
    /\ ret = ChunksReturned(<<>>)

HitIds(hits) == {hits[i][1] : i \in 1..Len(hits)}

HitValue(hits, id) == hits[CHOOSE i \in 1..Len(hits) : hits[i][1] = id][2]

\* C28: _merge_results returns each document id of either result set exactly
\* once, with the larger of its two similarities when both sets hold it (the
\* vector one 1 - distance/2 and the keyword score, each rounded to 4
\* decimals) and the single one otherwise, in descending order of similarity;
\* A at distance 0.4 and B at 1.0 with keyword A at 0.9 give [A(0.9), B(0.5)].
C28_MergeKeepsMax ==
    (call.op = "hybrid_search" /\ call.merged) =>
        LET documents == call.documents
            V == call.vector_results
            K == call.keyword_results
        IN /\ \A i, j \in 1..Len(documents) :
                 i # j => documents[i].id # documents[j].id
           /\ {documents[i].id : i \in 1..Len(documents)} = HitIds(V) \cup HitIds(K)
           /\ \A i \in 1..Len(documents) :
                 LET id == documents[i].id IN
                 documents[i].similarity =
                    IF id \in HitIds(V) /\ id \in HitIds(K)
                    THEN Max(_distance_to_similarity(HitValue(V, id)),
                             RoundScore(HitValue(K, id)))
                    ELSE IF id \in HitIds(V)
                    THEN _distance_to_similarity(HitValue(V, id))
                    ELSE RoundScore(HitValue(K, id))
           /\ \A i \in 1..(Len(documents) - 1) :
                 documents[i].similarity >= documents[i + 1].similarity
           /\ (V = <<<<1, 40000>>, <<2, 100000>>>> /\ K = <<<<1, 90000>>>>) =>
                 documents = <<[id |-> 1, similarity |-> 9000],
                               [id |-> 2, similarity |-> 5000]>>
           /\ (V = <<<<1, 33333>>>> /\ K = <<<<1, 50004>>>>) =>
                 documents = <<[id |-> 1, similarity |-> 8333]>>

\* Scenario C has been merged
C28_Witness ==
    /\ call.op = "hybrid_search"
    /\ call.merged
    /\ call.vector_results = <<<<1, 40000>>, <<2, 100000>>>>
    /\ call.keyword_results = <<<<1, 90000>>>>
    /\ Len(call.documents) = 2

HybridDone == pc = "done" /\ call.op = "hybrid_search"

\* the provider is not configured, the call failed, the body is no object, or
\* an item lacks a field or names an index that is not one of 0..n-1
ProviderFailed(response, n) ==
    \/ response.kind # "json"
    \/ \E i \in 1..Len(response.results) :
          \/ response.results[i].index = Missing
          \/ response.results[i].relevance_score = Missing
          \/ response.results[i].index[1] \notin 0..(n - 1)

\* C29: hybrid_search does not fail because of the rerank provider: when the
\* provider is unconfigured, the call fails or the response is malformed (a
\* missing field, an index outside the candidate list) the result is the
\* first rerank_top_k merged candidates in their order before the rerank.
C29_RerankDegradesToCut ==
    (HybridDone /\ call.reranked
       /\ ProviderFailed(call.response, Len(call.documents))) =>
        /\ ret.kind = "returned"
        /\ ret.results = SliceTo(call.documents, call.rerank_top_k)

\* C30: the search endpoint returns at most top_k results, whatever the
\* keyword hits, the configured rerank cutoff and the provider's response.
C30_AtMostTopK ==
    HybridDone => Len(ret.results) <= call.top_k

RerankDone == pc = "done" /\ call.op = "rerank_texts"

\* the scores a payload carries for candidate i (0-based), in a bag of one
\* entry per item that names i and has a score
ScoresFor(payload, i) ==
    IF payload.results.present
    THEN LET l == payload.results.list
         IN {k \in 1..Len(l) :
                /\ l[k].relevance_score # Missing
                /\ (IF l[k].index = Missing THEN k - 1 ELSE l[k].index[1]) = i}
    ELSE IF payload.data.present
    THEN {k \in 1..Len(payload.data.list) : k - 1 = i}
    ELSE IF payload.scores.present
    THEN {k \in 1..Len(payload.scores.list) : k - 1 = i}
    ELSE {}

\* the number of scores a payload carries
ScoreCount(payload) ==
    IF payload.results.present
    THEN Cardinality({k \in 1..Len(payload.results.list) :
                         payload.results.list[k].relevance_score # Missing})
    ELSE IF payload.data.present THEN Len(payload.data.list)
    ELSE IF payload.scores.present THEN Len(payload.scores.list)
    ELSE 0

\* the payload is an object with n scores, one for each of the n candidates
OneScorePerCandidate(payload, n) ==
    /\ payload.object
    /\ ScoreCount(payload) = n
    /\ \A i \in 0..(n - 1) : Cardinality(ScoresFor(payload, i)) = 1

\* C31: rerank_texts returns one score per candidate, the one the provider
\* gave for it, fails with COUNT_MISMATCH whenever the answer does not carry
\* exactly one score per candidate, and returns an empty list for no
\* candidate without calling the provider.
C31_OneScorePerCandidate ==
    RerankDone =>
        /\ call.candidates = 0 => (ret = ScoresReturned(<<>>) /\ ~call.posted)
        /\ (call.posted /\ call.answer.kind = "ok") =>
              IF OneScorePerCandidate(call.answer.payload, call.candidates)
              THEN /\ ret.kind = "returned"
                   /\ Len(ret.scores) = call.candidates
              ELSE ret = RerankError("COUNT_MISMATCH")

\* the response stream of a chat request has ended
StreamEnded == pc = "done" /\ call.op = "stream_chat" /\ call.retrieved

\* C32: every response stream of the chat endpoint is one sources event, then
\* the deltas in the order the model produced them, then one done event as
\* the last event, and the retrieval is over before the first event.
C32_SourcesDeltasDone ==
    /\ (call.op = "stream_chat" /\ call.events # <<>>) => call.retrieved
    /\ StreamEnded =>
          call.events =
             <<SseEvent("sources", call.retrieval)>>
             \o [i \in 1..Len(call.produced) |-> SseEvent("delta", call.produced[i])]
             \o <<SseEvent("done", None)>>

\* the rows of the knowledge base of the task, as committed
KbRows(s) ==
    <<{c \in s.chunks : c.knowledge_base_id = s.task.knowledge_base_id},
      {d \in DOMAIN s.documents :
          s.documents[d].exists
          /\ s.documents[d].knowledge_base_id = s.task.knowledge_base_id}>>

\* C33: in an execution of run_cleanup_task the rows of the knowledge base
\* change in the committed state only in the step that commits COMPLETED, and
\* that step starts from a committed status RUNNING with progress processed 0
\* and total = chunk count + document count: nobody sees rows removed while
\* the committed status is PENDING, RUNNING or FAILED.
C33_DeletesVisibleWithCompleted ==
    [][(call.op = "run_cleanup_task" /\ KbRows(store') # KbRows(store)) =>
          /\ store'.task.status = COMPLETED
          /\ KbRows(store') = <<{}, {}>>
          /\ store.task.status = RUNNING
          /\ store.task.progress.processed = 0
          /\ store.task.progress.total =
                CountChunks(store, store.task.knowledge_base_id)
                + CountDocuments(store, store.task.knowledge_base_id)]_vars

\* an execution has removed two chunks and a document
C33_Witness ==
    /\ pc = "done"
    /\ call.op = "run_cleanup_task"
    /\ store.task.status = COMPLETED
    /\ call.chunk_count = 2
    /\ call.doc_count = 1
    /\ KbRows(store) = <<{}, {}>>
    /\ KbRows(pre) # <<{}, {}>>

\* RUNNING and the totals are committed and no delete has been issued yet
C33_WitnessRunning ==
    /\ pc = "cleanup_delete"
    /\ store.task.status = RUNNING
    /\ store.task.progress.total = 3
    /\ CountChunks(store, store.task.knowledge_base_id) = 2

\* hybrid_search handed the merged candidates to rerank / to the provider
RerankCondition ==
    /\ call.use_rerank
    /\ call.rerank_top_k > 0
    /\ Len(call.documents) > call.rerank_top_k

ProviderCalled == call.reranked /\ call.response.kind # "unconfigured"

\* C34: hybrid_search calls the rerank provider only when use_rerank is set,
\* rerank_top_k > 0 and there are more merged candidates than rerank_top_k;
\* in every other case it returns the first rerank_top_k merged candidates in
\* merged order and no provider call is made.
C34_RerankOnlyAboveCutoff ==
    HybridDone =>
        /\ ProviderCalled => RerankCondition
        /\ ~RerankCondition =>
              /\ ~call.reranked
              /\ Len(ret.results) = Min(call.rerank_top_k, Len(call.documents))
              /\ \A i \in 1..Len(ret.results) : ret.results[i] = call.documents[i]

\* rerank is asked for, but the two candidates do not exceed the cutoff of two
C34_Witness ==
    /\ HybridDone
    /\ call.use_rerank
    /\ call.rerank_top_k = 2
    /\ Len(call.documents) = 2
    /\ ~call.reranked
    /\ ret.results = call.documents

\* three candidates above a cutoff of one: the provider reorders them
C34_WitnessCalled ==
    /\ HybridDone
    /\ ProviderCalled
    /\ call.rerank_top_k = 1
    /\ Len(call.documents) = 3
    /\ call.response.kind = "json"
    /\ Len(ret.results) = 2
    /\ ret.results[1].id = call.documents[2].id

\* a refused update_knowledge_base ends: the session is closed, not committed
RefusedUpdateCloses ==
    (pc = "done" /\ call.op = "update_knowledge_base" /\ ret.kind = "raised") =>
        store' = store

\* C35 as stated: update_knowledge_base of an existing knowledge base with
\* status DELETED in its payload fails with the 409 error
\* KNOWLEDGE_BASE_DELETED and commits nothing: name, description and status
\* stay, whatever else the payload carries, and no CleanupTask is created.
C35_DeletedPayloadIsRefused ==
    [][/\ \A kb_id \in KbInputs, payload \in KnowledgeBaseUpdate :
             (/\ payload.status = KB_DELETED
              /\ GetKb(store, kb_id) # None
              /\ update_knowledge_base(kb_id, payload)) =>
                 /\ ret' = AppError(409, "KNOWLEDGE_BASE_DELETED")
                 /\ store' = store
       /\ RefusedUpdateCloses]_vars

\* C35, amended: update_knowledge_base with status DELETED in its payload
\* fails and commits nothing; the error is 404 KNOWLEDGE_BASE_NOT_FOUND for a
\* missing knowledge base, 409 KNOWLEDGE_BASE_NAME_CONFLICT when the knowledge
\* base is not DELETED and the payload's new name is taken, and 409
\* KNOWLEDGE_BASE_DELETED otherwise.
C35_DeletedPayloadCommitsNothing ==
    [][/\ \A kb_id \in KbInputs, payload \in KnowledgeBaseUpdate :
             (payload.status = KB_DELETED /\ update_knowledge_base(kb_id, payload)) =>
                 /\ ret' =
                       IF GetKb(store, kb_id) = None
                       THEN AppError(404, "KNOWLEDGE_BASE_NOT_FOUND")
                       ELSE IF GetKb(store, kb_id) # KB_DELETED
                               /\ payload.name # None
                               /\ payload.name # store.kb_name[kb_id]
                               /\ \E o \in DOMAIN store.kbs \ {kb_id} :
                                     store.kb_name[o] = payload.name
                       THEN AppError(409, "KNOWLEDGE_BASE_NAME_CONFLICT")
                       ELSE AppError(409, "KNOWLEDGE_BASE_DELETED")
                 /\ store' = store
       /\ RefusedUpdateCloses]_vars

\* the refused payload carried a new name: it is pending in the session and
\* not in the store
C35_Witness ==
    /\ pc = "done"
    /\ call.op = "update_knowledge_base"
    /\ ret = AppError(409, "KNOWLEDGE_BASE_DELETED")
    /\ GetKb(store, call.id) = KB_ENABLED
    /\ store.kb_name[call.id] = "n1"
    /\ sess.kb_name[call.id] = "n3"
    /\ ~store.task.exists

\* C36: under every interleaving of persist_embeddings and delete_document on
\* the same document in separate sessions, once DELETED is committed the
\* document's status is never changed to COMPLETED or FAILED and no chunk row
\* exists for it.
C36_DeletedStaysUnderRace ==
    [][store.documents[2].status = DELETED =>
          /\ store'.documents[2].status = DELETED
          /\ ChunksOf(store', 2) = {}]_vars


\* C37: once the CleanupTask of knowledge base 1 is COMPLETED, the knowledge
\* base has no document row and no chunk row in any later state, also when
\* create_document passed its check before the knowledge base was deleted.
C37_NothingLeftAfterCompleted ==
    (store.task.exists /\ store.task.status = COMPLETED) =>
        /\ CountDocuments(store, store.task.knowledge_base_id) = 0
        /\ CountChunks(store, store.task.knowledge_base_id) = 0

\* the CleanupTask rows of a knowledge base
TasksOf(s, kb_id) ==
    (IF s.task.exists /\ s.task.knowledge_base_id = kb_id THEN 1 ELSE 0)
    + Cardinality({i \in 1..Len(s.later_tasks) : s.later_tasks[i].knowledge_base_id = kb_id})

\* C38: in every reachable state, also under interleaved delete_knowledge_base
\* calls from separate sessions, a knowledge base has exactly one CleanupTask
\* if its status is DELETED and none otherwise.
C38_OneTaskIffDeleted ==
    \A kb_id \in DOMAIN store.kbs :
        TasksOf(store, kb_id) = IF store.kbs[kb_id] = KB_DELETED THEN 1 ELSE 0


\* the chunk row belongs to an existing document that is not DELETED and
\* carries that document's knowledge_base_id
ChunkHasOwner(s, c) ==
    /\ GetDocument(s, c.document_id).exists
    /\ GetDocument(s, c.document_id).status # DELETED
    /\ GetDocument(s, c.document_id).knowledge_base_id = c.knowledge_base_id

\* C39: in every state reachable by sequential calls of create_document,
\* persist_embeddings, delete_document, delete_knowledge_base and
\* run_cleanup_task, each DocumentChunk belongs to an existing Document that is
\* not DELETED, and its knowledge_base_id equals that document's.
C39_ChunksHaveLiveOwner ==
    /\ \A c \in store.chunks : ChunkHasOwner(store, c)
    /\ \A c \in sess.chunks : ChunkHasOwner(sess, c)

\* an ingested document of knowledge base 1 is deleted: its chunk rows go
\* with the status change
C39_Witness ==
    /\ call.op = "delete_document"
    /\ ret = Returned
    /\ ChunksOf(pre, call.id) # {}
    /\ store.documents[call.id].status = DELETED
    /\ ChunksOf(store, call.id) = {}

\* chunk rows of knowledge base 1 are committed
C39_WitnessIngested ==
    /\ pc = "idle"
    /\ \E c \in store.chunks : c.knowledge_base_id = 1 /\ store.documents[c.document_id].status = COMPLETED

\* a cleanup removed the chunk rows and the documents of knowledge base 1
C39_WitnessCleanup ==
    /\ call.op = "run_cleanup_task"
    /\ ret = Returned
    /\ store.task.status = COMPLETED
    /\ CountChunks(pre, 1) > 0
    /\ CountChunks(store, 1) = 0


\* error_message of the task row is set exactly when its status is FAILED
MessageIffFailed(task) ==
    task.exists => ((task.error_message # None) <=> (task.status = FAILED))

\* C40: in every committed state of a CleanupTask, error_message is set if
\* and only if status is FAILED: it is empty at creation, cleared when an
\* execution starts and when retry resets the task, and written only together
\* with status FAILED.
C40_MessageIffFailed == MessageIffFailed(store.task)

====
